---- MODULE Spec2Model ----
(***************************************************************************)
(* State-machine model of the IBE mock server: the in-memory entity store  *)
(* (mock_server/state.py), the ancillary selection handlers (seats, bags,  *)
(* meals), the flight-selection handlers and the repricing function.       *)
(*                                                                         *)
(* Python objects are records whose fields are exactly the attributes      *)
(* the class declares.  The state classes are @dataclass(slots=True), so   *)
(* reading or assigning an attribute that is not a declared field raises   *)
(* AttributeError; HasAttr models that test.  A handler that raises is     *)
(* answered by the _exception_guard middleware (server.py) with the error  *)
(* envelope; whatever the handler had written to the store before the      *)
(* raise stays written.                                                    *)
(*                                                                         *)
(* Abstractions: timestamps (created_at / updated_at) are not modelled;    *)
(* money amounts are whole numbers (every fee of the code is a whole       *)
(* number, so round(x, 2) is the identity on them); the pass-through       *)
(* selection fields that no code reads (priorityMember, redemption, ...)   *)
(* are left out; request strings are already stripped.                     *)
(***************************************************************************)
EXTENDS Integers, Sequences, FiniteSets, TLC

VARIABLES
    global_revision,   \* MockStateStore._global_revision
    conversations,     \* MockStateStore.conversations : id -> ConversationState
    orders,            \* MockStateStore.orders        : id -> OrderState
    shopping_carts,    \* MockStateStore.shopping_carts: id -> ShoppingCartState
    airs,              \* MockStateStore.airs          : id -> AirState
    profiles,          \* MockStateStore.profiles      : id -> ProfileState
    mock_debug,        \* the MOCK_DEBUG variable of the process environment
    response,          \* the response of the last request
    last,              \* the last handler call: its name, its arguments and
                       \* what its store helper returned
    _lock,             \* MockStateStore._lock, an RLock: its owner and its depth
    tasks              \* the tasks that call the store: where each one is in
                       \* its call and what its calls returned

vars == <<global_revision, conversations, orders, shopping_carts, airs, profiles,
          mock_debug, response, last, _lock, tasks>>

-----------------------------------------------------------------------------
(* Bounds of the model                                                     *)

MaxPayloadLen == 2     \* entries in one PUT payload
MaxBagIds == 3         \* baggage ids in one baggage selection entry
MaxRevision == 8      \* requests are accepted while the revision is below this
MaxStoreRevision == 3  \* store calls are made while the revision is below this
MaxCalls == 2          \* store calls one task makes
MaxOptionSets == 2     \* option sets of a stored search

-----------------------------------------------------------------------------
(* Generic helpers                                                         *)

Range(s) == {s[i] : i \in 1..Len(s)}

SeqsUpTo(S, n) == UNION {[1..k -> S] : k \in 0..n}

RECURSIVE SumSeq(_)
SumSeq(s) == IF s = <<>> THEN 0 ELSE Head(s) + SumSeq(Tail(s))

\* s[:n]
Take(s, n) == SubSeq(s, 1, IF Len(s) < n THEN Len(s) ELSE n)

\* A Python dict (insertion ordered) is a sequence of [k, v] pairs.
DictHas(d, k) == \E i \in 1..Len(d) : d[i].k = k
DictGet(d, k) == d[CHOOSE i \in 1..Len(d) : d[i].k = k].v
\* d[k] = v : an existing key keeps its position, a new key goes last
DictSet(d, k, v) ==
    IF DictHas(d, k)
    THEN [i \in 1..Len(d) |-> IF d[i].k = k THEN [k |-> k, v |-> v] ELSE d[i]]
    ELSE Append(d, [k |-> k, v |-> v])
\* d.pop(k, None)
DictPop(d, k) == LET Other(e) == e.k # k IN SelectSeq(d, Other)
\* list(d.values())
DictValues(d) == [i \in 1..Len(d) |-> d[i].v]

\* obj.name on a slots dataclass: defined only for a declared field
HasAttr(obj, name) == name \in DOMAIN obj

\* str.upper() on the seat letters of the model
upper(s) ==
    CASE s = "a" -> "A"
      [] s = "c" -> "C"
      [] s = "d" -> "D"
      [] OTHER -> s

-----------------------------------------------------------------------------
(* mock_server/state.py                                                    *)

ConversationState(ctx) ==
    [conversation_id |-> ctx.conversation_id, application |-> ctx.application,
     flow |-> ctx.flow, locale |-> ctx.locale]

OrderState(order_id, conversation_id) ==
    [order_id |-> order_id, conversation_id |-> conversation_id,
     currency |-> "USD", status |-> "DRAFT", revision |-> 0]

AirState(air_id, order_id, shopping_cart_id) ==
    [air_id |-> air_id, order_id |-> order_id, shopping_cart_id |-> shopping_cart_id,
     segments |-> <<>>, ancillaries |-> <<>>, revision |-> 0]

\* pricing = {} (the empty dict) is [set |-> FALSE]
NoPricing == [set |-> FALSE]

ShoppingCartState(shopping_cart_id, order_id) ==
    [shopping_cart_id |-> shopping_cart_id, order_id |-> order_id, status |-> "OPEN",
     selected_airs |-> <<>>, travellers |-> <<>>, customer |-> <<>>,
     pricing |-> NoPricing, revision |-> 0]

ProfileState(profile_id) == [profile_id |-> profile_id, data |-> <<>>]

\* The store as one value, so that the calls of a handler can be chained.
MockStateStore ==
    [rev |-> 0, conversations |-> <<>>, orders |-> <<>>, carts |-> <<>>,
     airs |-> <<>>, profiles |-> <<>>]

_bump_global(st) == [st EXCEPT !.rev = @ + 1]

touch(st) == _bump_global(st)

ensure_conversation(st, ctx) ==
    IF ctx.conversation_id \in DOMAIN st.conversations
    THEN [st |-> st, created |-> FALSE]
    ELSE [st |-> _bump_global(
                   [st EXCEPT !.conversations =
                       @ @@ (ctx.conversation_id :> ConversationState(ctx))]),
          created |-> TRUE]

\* A creation that stamps the entity with a revision the store has not reached.
CreatedAhead(st, map, id, entity) ==
    [st EXCEPT !.rev = @ + 1,
               ![map] = @ @@ (id :> [entity EXCEPT !.revision = st.rev + 2])]

\* entity.revision = self._bump_global(); self.<map>[id] = entity
Created(st, map, id, entity) ==
    [st EXCEPT !.rev = @ + 1,
               ![map] = @ @@ (id :> [entity EXCEPT !.revision = st.rev + 1])]

\* An ensure_order that creates the order whether or not the id has one.
ensure_order_anew(st, order_id, ctx) ==
    [st |-> [st EXCEPT
                !.rev = @ + 1,
                !.orders = (order_id :> [OrderState(order_id, ctx.conversation_id)
                                            EXCEPT !.revision = st.rev + 1]) @@ @],
     created |-> TRUE]

ensure_order(st, order_id, ctx) ==
    IF order_id \in DOMAIN st.orders
    THEN [st |-> st, created |-> FALSE]
    ELSE [st |-> Created(st, "orders", order_id, OrderState(order_id, ctx.conversation_id)),
          created |-> TRUE]

ensure_shopping_cart(st, order_id, shopping_cart_id) ==
    IF shopping_cart_id \in DOMAIN st.carts
    THEN [st |-> st, created |-> FALSE]
    ELSE [st |-> Created(st, "carts", shopping_cart_id,
                         ShoppingCartState(shopping_cart_id, order_id)),
          created |-> TRUE]

ensure_air(st, order_id, shopping_cart_id, air_id) ==
    IF air_id \in DOMAIN st.airs
    THEN [st |-> st, created |-> FALSE]
    ELSE [st |-> Created(st, "airs", air_id, AirState(air_id, order_id, shopping_cart_id)),
          created |-> TRUE]

ensure_profile(st, profile_id) ==
    IF profile_id \in DOMAIN st.profiles
    THEN [st |-> st, created |-> FALSE]
    ELSE [st |-> _bump_global(
                   [st EXCEPT !.profiles = @ @@ (profile_id :> ProfileState(profile_id))]),
          created |-> TRUE]

\* with self._lock: the methods of the store whose writes run inside it.  The
\* writes of ensure_from_request (lines 229-232) and of the handlers' helpers
\* are made through the entity objects, outside any with block.
LockHeld(symbol) ==
    symbol \in {"ensure_conversation", "ensure_order", "ensure_shopping_cart",
                "ensure_air", "ensure_profile", "touch"}

Warning(code, details) == [code |-> code, message |-> code, details |-> details]

\* A tier that reports the entity whether or not the call created it.
NotedAlways(acc, r, code, details) ==
    [st |-> r.st, warnings |-> Append(acc.warnings, Warning(code, details))]

\* ensure_from_request, tier by tier; acc is [st, warnings], path_params is
\* [orderId, shoppingCartId, airId, profileId] with "" for an absent id.
Noted(acc, r, code, details) ==
    [st |-> r.st,
     warnings |-> IF r.created THEN Append(acc.warnings, Warning(code, details))
                  ELSE acc.warnings]

EnsureConversationTier(acc, ctx) ==
    Noted(acc, ensure_conversation(acc.st, ctx), "AUTO_CREATED",
          [conversationId |-> ctx.conversation_id])

EnsureOrderTier(acc, ctx, order_id) ==
    IF order_id # ""
    THEN Noted(acc, ensure_order(acc.st, order_id, ctx), "AUTO_CREATED",
               [orderId |-> order_id])
    ELSE acc

\* A cart tier that does not look at the order id.
EnsureCartTierAlone(acc, order_id, cart_id) ==
    IF cart_id # ""
    THEN Noted(acc, ensure_shopping_cart(acc.st, order_id, cart_id), "AUTO_CREATED",
               [orderId |-> order_id, shoppingCartId |-> cart_id])
    ELSE acc

EnsureCartTier(acc, order_id, cart_id) ==
    IF order_id # "" /\ cart_id # ""
    THEN Noted(acc, ensure_shopping_cart(acc.st, order_id, cart_id), "AUTO_CREATED",
               [orderId |-> order_id, shoppingCartId |-> cart_id])
    ELSE acc

\* A link that appends the air without looking for it in the list.
LinkAirAgain(st, cart_id, air_id) ==
    [st EXCEPT !.rev = @ + 1,
               !.carts[cart_id].selected_airs = Append(@, air_id),
               !.carts[cart_id].revision = st.rev + 1]

\* cart.selected_airs.append(air_id); cart.revision = self._bump_global()
LinkAir(st, cart_id, air_id) ==
    IF air_id \in Range(st.carts[cart_id].selected_airs) THEN st
    ELSE [st EXCEPT !.rev = @ + 1,
                    !.carts[cart_id].selected_airs = Append(@, air_id),
                    !.carts[cart_id].revision = st.rev + 1]

LinkedAir(r, cart_id, air_id) == [st |-> LinkAir(r.st, cart_id, air_id), created |-> r.created]

EnsureAirTier(acc, order_id, cart_id, air_id) ==
    IF order_id # "" /\ cart_id # "" /\ air_id # ""
    THEN Noted(acc, LinkedAir(ensure_air(acc.st, order_id, cart_id, air_id), cart_id, air_id),
               "AUTO_CREATED",
               [orderId |-> order_id, shoppingCartId |-> cart_id, airId |-> air_id])
    ELSE acc

EnsureProfileTier(acc, profile_id) ==
    IF profile_id # ""
    THEN Noted(acc, ensure_profile(acc.st, profile_id), "AUTO_CREATED",
               [profileId |-> profile_id])
    ELSE acc

\* Returns [st, warnings].
ensure_from_request(st, ctx, path_params) ==
    EnsureProfileTier(
        EnsureAirTier(
            EnsureCartTier(
                EnsureOrderTier(
                    EnsureConversationTier([st |-> st, warnings |-> <<>>], ctx),
                    ctx, path_params.orderId),
                path_params.orderId, path_params.shoppingCartId),
            path_params.orderId, path_params.shoppingCartId, path_params.airId),
        path_params.profileId)

-----------------------------------------------------------------------------
(* mock_server/responses.py, mock_server/errors.py                         *)

\* ok(): BaseResponse(error=None, ...).to_dict(); no error is error = "null"
ok == [error |-> "null", warnings |-> <<>>, rules |-> <<>>, banners |-> <<>>,
       status |-> 200]

with_context_warnings(payload, context_warnings) ==
    [payload EXCEPT !.warnings = @ \o context_warnings]

\* An error envelope without the rules and banners lists.
fail_bare(exc) ==
    [error |-> "UNEXPECTED_ERROR", warnings |-> <<>>, status |-> 200, exception |-> exc]

\* fail(error_from_exception(exc))
fail(exc) == [ok EXCEPT !.error = "UNEXPECTED_ERROR"] @@ [exception |-> exc]

-----------------------------------------------------------------------------
(* mock_server/handlers/flights_search.py                                  *)

\* cart.pricing once set: {"total": {"price": {"amount", "currency"}}}
_make_pricing(total_amount, currency) ==
    [set |-> TRUE, total |-> total_amount, currency |-> currency]

-----------------------------------------------------------------------------
(* mock_server/handlers/cabins.py                                          *)

CabinTypes == {"BUSINESS", "PREMIUM", "ECONOMY"}

\* The layout of one cabin: its columns, its rows, and the rows tagged XL and
\* exit.
_cabin(cabin_type) ==
    CASE cabin_type = "BUSINESS" ->
            [columns |-> <<"A", "D", "F", "K">>, row_range |-> 1..5,
             xl_rows |-> {}, exit_rows |-> {}, cabin_class |-> "BUSINESS"]
      [] cabin_type = "PREMIUM" ->
            [columns |-> <<"A", "B", "D", "E", "F", "J", "K">>, row_range |-> 6..14,
             xl_rows |-> {10}, exit_rows |-> {}, cabin_class |-> "PREMIUM"]
      [] OTHER ->
            [columns |-> <<"A", "B", "C", "D", "F", "G", "H", "J", "K">>,
             row_range |-> 15..54,
             xl_rows |-> {15, 40}, exit_rows |-> {15, 40}, cabin_class |-> "ECONOMY"]

\* nine columns get two gaps, "_", after the third and the sixth
_iter_columns_with_aisles(columns) ==
    IF Len(columns) = 9
    THEN SubSeq(columns, 1, 3) \o <<"_">> \o SubSeq(columns, 4, 6) \o <<"_">>
         \o SubSeq(columns, 7, 9)
    ELSE columns

\* the amount of the price group of a seat type
SeatTypeAmount(seat_type) ==
    CASE seat_type = "XL" -> 25
      [] seat_type = "EXIT" -> 30
      [] OTHER -> 0

SeatTypeGroup(seat_type) == IF seat_type \in {"XL", "EXIT"} THEN seat_type ELSE "STD"

\* A place of the seat map; a gap is a place that does not exist and has no
\* seat.
_place(row, col, currency, available, seat_type, emergency) ==
    IF col = "_"
    THEN [number |-> "", available |-> FALSE, absent |-> TRUE, exists |-> FALSE,
          emergency |-> FALSE]
    ELSE [number |-> col, available |-> available, absent |-> FALSE, exists |-> TRUE,
          seat |-> [pricing |-> [amount |-> SeatTypeAmount(seat_type),
                                 currency |-> currency],
                    row |-> row, number |-> col,
                    priceGroup |-> SeatTypeGroup(seat_type),
                    chargeable |-> seat_type \in {"XL", "EXIT"}],
          emergency |-> emergency]

\* The tag of a seat: EXIT on the outer columns of an exit row, and XL, which
\* is tested last, on the columns D, F, G of an XL row.
SeatType(row_number, col, xl_rows, exit_rows) ==
    IF row_number \in xl_rows /\ col \in {"D", "F", "G"} THEN "XL"
    ELSE IF row_number \in exit_rows /\ col \in {"A", "B", "C", "H", "J", "K"} THEN "EXIT"
    ELSE "STD"

\* The place _row builds for one column; occupied is the outcome of
\* _stable_bool on the seed of the seat.
RowPlace(row_number, col, currency, occupied, xl_rows, exit_rows) ==
    IF col = "_" THEN _place(ToString(row_number), col, currency, FALSE, "STD", FALSE)
    ELSE _place(ToString(row_number), col, currency, ~occupied,
                SeatType(row_number, col, xl_rows, exit_rows),
                row_number \in exit_rows /\ col \in {"A", "B", "C", "H", "J", "K"})

\* The rows of the seat map, and the number each row string stands for.
SeatMapRows == UNION {_cabin(cabin_type).row_range : cabin_type \in CabinTypes}

RowOfString ==
    [s \in {ToString(r) : r \in SeatMapRows} |->
        CHOOSE r \in SeatMapRows : ToString(r) = s]

-----------------------------------------------------------------------------
(* mock_server/handlers/seats.py                                           *)

\* A JSON value of a request list is [json |-> "object", ...fields], or
\* [json |-> "other"] for anything that is not an object.
IsObject(item) == item.json = "object"

Normalised(d) ==
    [passengerId |-> d.passengerId, segmentId |-> d.segmentId,
     rowNumber |-> d.rowNumber, seatNumber |-> d.seatNumber]

\* body is [json, seatSelections]; a non-object item gives {} and is skipped
_extract_seat_selections(body) ==
    IF ~IsObject(body) THEN <<>>
    ELSE LET raw_list == SelectSeq(body.seatSelections, IsObject)
         IN  [i \in 1..Len(raw_list) |-> Normalised(raw_list[i])]

\* int(row_number) for the row strings of the seat map; 0 stands for "not a
\* number"
ParseRow(row_number) ==
    IF row_number \in DOMAIN RowOfString THEN RowOfString[row_number] ELSE 0

\* The fee without the XL seats of the premium cabin.
SeatPriceEconomyOnly(row_number, seat_number) ==
    LET r == ParseRow(row_number)
        col == upper(seat_number)
    IN  IF r \in {15, 40} /\ col \in {"D", "F", "G"} THEN 25
        ELSE IF r \in {15, 40} /\ col \in {"A", "B", "C", "H", "J", "K"} THEN 30
        ELSE 0

_seat_price(row_number, seat_number) ==
    LET r == ParseRow(row_number)
        col == upper(seat_number)
    IN  IF r = 0 THEN 0
        ELSE IF 1 <= r /\ r <= 9 THEN 0
        ELSE IF 10 <= r /\ r <= 14
             THEN (IF r = 10 /\ col \in {"D", "F"} THEN 25 ELSE 0)
        ELSE IF r \in {15, 40} /\ col \in {"D", "F", "G"} THEN 25
        ELSE IF r \in {15, 40} /\ col \in {"A", "B", "C", "H", "J", "K"} THEN 30
        ELSE 0

\* The stored search is [present, optionSets]; an option set is
\* [id, selection, optionId, solutionId, cheapestOptionId, options], an option
\* [id, cheapestSolutionId, userSelected, solutions], its solutions a dict from
\* solution id to [amount, currency, preselected]; a price without an amount
\* has no amount field, a price without a currency has currency "".
\* a or b, on strings
Or(a, b) == IF a # "" THEN a ELSE b

SelectedOptionId(option_set) == Or(option_set.selection.optionId, option_set.optionId)

\* The solution id without the option's cheapest solution.
SelectedSolutionIdOnly(option_set, option) ==
    Or(option_set.selection.solutionId, option_set.solutionId)

SelectedSolutionId(option_set, option) ==
    Or(Or(option_set.selection.solutionId, option_set.solutionId),
       option.cheapestSolutionId)

\* the first option whose id is option_id
FindOption(option_set, option_id) ==
    LET Chosen(opt) == opt.id = option_id
        hits == SelectSeq(option_set.options, Chosen)
    IN  IF option_id = "" \/ hits = <<>> THEN [found |-> FALSE]
        ELSE [found |-> TRUE, option |-> hits[1]]

\* lines 135-153: float(None) raises and the option set is skipped
SolutionPrice(option, solution_id) ==
    IF /\ DictHas(option.solutions, solution_id)
       /\ "amount" \in DOMAIN DictGet(option.solutions, solution_id)
    THEN [found |-> TRUE, amount |-> DictGet(option.solutions, solution_id).amount,
          currency |-> DictGet(option.solutions, solution_id).currency]
    ELSE [found |-> FALSE]

QuoteOf(option_set, hit) ==
    IF hit.found THEN SolutionPrice(hit.option, SelectedSolutionId(option_set, hit.option))
    ELSE [found |-> FALSE]

\* lines 114-156: what one option set adds to the total
OptionQuote(option_set) ==
    QuoteOf(option_set, FindOption(option_set, SelectedOptionId(option_set)))

\* lines 155-156: currency = str(price.get("currency") or currency)
Added(acc, q) ==
    IF q.found
    THEN [total |-> acc.total + q.amount, currency |-> Or(q.currency, acc.currency)]
    ELSE acc

RECURSIVE FlightsTotalLoop(_, _)
FlightsTotalLoop(option_sets, acc) ==
    IF option_sets = <<>> THEN acc
    ELSE FlightsTotalLoop(Tail(option_sets), Added(acc, OptionQuote(Head(option_sets))))

_compute_flights_total(search_obj) ==
    FlightsTotalLoop(search_obj.optionSets, [total |-> 0, currency |-> "USD"])

\* air_state.ancillaries is a dict: a function on the keys that were written
AncList(anc, key) == IF key \in DOMAIN anc THEN anc[key] ELSE <<>>
AncSet(anc, key, value) ==
    [k \in DOMAIN anc \cup {key} |-> IF k = key THEN value ELSE anc[k]]

\* f"{rn}{sn}"
SeatKey(s) == s.rowNumber \o upper(s.seatNumber)

\* one round of the loop over existing_norm (lines 209-218)
IndexOne(acc, s) ==
    IF s.passengerId = "" \/ s.segmentId = "" THEN acc
    ELSE [acc EXCEPT
            !.by_psg_seg = DictSet(@, <<s.passengerId, s.segmentId>>, s),
            !.by_seg_seat = IF s.rowNumber # "" /\ upper(s.seatNumber) # ""
                            THEN DictSet(@, <<s.segmentId, SeatKey(s)>>, s)
                            ELSE @]

\* A seat update that forgets what the air stored.
IndexNone(existing, acc) == acc

RECURSIVE IndexExisting(_, _)
IndexExisting(existing, acc) ==
    IF existing = <<>> THEN acc
    ELSE IndexExisting(Tail(existing), IndexOne(acc, Head(existing)))

\* A seat update that never evicts the previous holder of a seat.
EvictNone(acc, s) == acc

\* lines 236-247: the seat is indexed for another passenger
Evict(acc, s) ==
    LET key == <<s.segmentId, SeatKey(s)>>
    IN  IF DictHas(acc.by_seg_seat, key)
           /\ DictGet(acc.by_seg_seat, key).passengerId # s.passengerId
        THEN [acc EXCEPT
                !.warnings = Append(@, Warning("SEAT_REASSIGNED",
                    [segmentId |-> s.segmentId, seat |-> SeatKey(s),
                     fromPassengerId |-> DictGet(acc.by_seg_seat, key).passengerId,
                     toPassengerId |-> s.passengerId])),
                !.by_psg_seg = DictPop(@, <<DictGet(acc.by_seg_seat, key).passengerId,
                                            s.segmentId>>)]
        ELSE acc

\* A seat update that keeps the selection a passenger already has for a segment.
AssignFirst(acc, sel_obj) ==
    IF DictHas(acc.by_psg_seg, <<sel_obj.passengerId, sel_obj.segmentId>>) THEN acc
    ELSE [acc EXCEPT
            !.by_psg_seg = DictSet(@, <<sel_obj.passengerId, sel_obj.segmentId>>, sel_obj),
            !.by_seg_seat = DictSet(@, <<sel_obj.segmentId, SeatKey(sel_obj)>>, sel_obj)]

\* lines 249-263
Assign(acc, sel_obj) ==
    [acc EXCEPT
        !.by_psg_seg = DictSet(@, <<sel_obj.passengerId, sel_obj.segmentId>>, sel_obj),
        !.by_seg_seat = DictSet(@, <<sel_obj.segmentId, SeatKey(sel_obj)>>, sel_obj)]

\* one round of the loop over new_selections (lines 220-263)
ApplyOne(acc, s) ==
    IF s.passengerId = "" \/ s.segmentId = "" \/ s.rowNumber = "" \/ upper(s.seatNumber) = ""
    THEN [acc EXCEPT !.warnings = Append(@, Warning("SEAT_SELECTION_INVALID",
                [passengerId |-> s.passengerId, segmentId |-> s.segmentId,
                 rowNumber |-> s.rowNumber, seatNumber |-> upper(s.seatNumber)]))]
    ELSE Assign(Evict(acc, s), [s EXCEPT !.seatNumber = upper(@)])

RECURSIVE ApplySelections(_, _)
ApplySelections(acc, new_selections) ==
    IF new_selections = <<>> THEN acc
    ELSE ApplySelections(ApplyOne(acc, Head(new_selections)), Tail(new_selections))

\* lines 265-269; the helpers return [st, updated, warnings]
StoreSeats(st, air_id, updated, warnings) ==
    [st |-> [st EXCEPT !.rev = @ + 1,
                       !.airs[air_id].ancillaries = AncSet(@, "seatSelections", updated),
                       !.airs[air_id].revision = st.rev + 1],
     updated |-> updated,
     warnings |-> warnings]

Merged(st, air_id, acc) == StoreSeats(st, air_id, DictValues(acc.by_psg_seg), acc.warnings)

EnsureAll(st, ctx, order_id, cart_id, air_id) ==
    ensure_air(ensure_shopping_cart(ensure_order(st, order_id, ctx).st, order_id, cart_id).st,
               order_id, cart_id, air_id).st

MergeSeats(st, air_id, new_selections) ==
    Merged(st, air_id,
        ApplySelections(
            IndexExisting(AncList(st.airs[air_id].ancillaries, "seatSelections"),
                          [by_psg_seg |-> <<>>, by_seg_seat |-> <<>>, warnings |-> <<>>]),
            new_selections))

_update_store_seats(st, ctx, order_id, cart_id, air_id, new_selections) ==
    MergeSeats(EnsureAll(st, ctx, order_id, cart_id, air_id), air_id, new_selections)

\* A seat DELETE that clears the category whatever the filter.
KeptNone(existing, segment_id) == <<>>

\* segment_id = "" is "no segmentId query parameter"
KeptSeats(existing, segment_id) ==
    LET Other(s) == s.segmentId # segment_id
    IN  IF segment_id # "" THEN SelectSeq(existing, Other) ELSE <<>>

\* the selections are rewritten and the revision stays
ClearSeatsUntouched(st, air_id, segment_id) ==
    [st |-> [st EXCEPT !.airs[air_id].ancillaries =
                 AncSet(@, "seatSelections",
                        KeptSeats(AncList(st.airs[air_id].ancillaries, "seatSelections"),
                                  segment_id))],
     updated |-> KeptSeats(AncList(st.airs[air_id].ancillaries, "seatSelections"), segment_id),
     warnings |-> <<Warning("SEAT_SELECTION_CLEARED", [segmentId |-> segment_id, airId |-> air_id])>>]

ClearSeats(st, air_id, segment_id) ==
    StoreSeats(st, air_id,
        KeptSeats(AncList(st.airs[air_id].ancillaries, "seatSelections"), segment_id),
        <<Warning("SEAT_SELECTION_CLEARED", [segmentId |-> segment_id, airId |-> air_id])>>)

_delete_store_seats(st, ctx, order_id, cart_id, air_id, segment_id) ==
    ClearSeats(EnsureAll(st, ctx, order_id, cart_id, air_id), air_id, segment_id)

\* lines 334-338
SeatTotal(anc) ==
    LET seats == AncList(anc, "seatSelections")
    IN  SumSeq([i \in 1..Len(seats) |-> _seat_price(seats[i].rowNumber, seats[i].seatNumber)])

\* lines 340-348
BagTotal(anc) ==
    LET items == AncList(anc, "baggageItems")
    IN  SumSeq([i \in 1..Len(items) |-> items[i].amount])

\* lines 350-360
MealTotal(anc) ==
    LET meal_items == AncList(anc, "mealItems")
    IN  SumSeq([i \in 1..Len(meal_items) |-> meal_items[i].amount])

\* What a call that raises leaves behind: the store as written so far.
Raised(st, exception) ==
    [st |-> st, raised |-> TRUE, exception |-> exception,
     pricing |-> NoPricing, currency |-> ""]

\* lines 328-331: reading cart_state.flights_search
FlightsQuote(order_state, cart_state) ==
    IF cart_state.flights_search.present
    THEN _compute_flights_total(cart_state.flights_search)
    ELSE [total |-> 0, currency |-> order_state.currency]

\* lines 364-372
StorePricing(st, order_id, cart_id, pricing) ==
    [st |-> [st EXCEPT !.rev = @ + 2,
                       !.carts[cart_id].pricing = pricing,
                       !.carts[cart_id].revision = st.rev + 1,
                       !.orders[order_id].currency = pricing.currency,
                       !.orders[order_id].revision = st.rev + 2],
     raised |-> FALSE, exception |-> "",
     pricing |-> pricing, currency |-> pricing.currency]

\* lines 333-362
Total(st, air_id, quote) ==
    _make_pricing(quote.total + SeatTotal(st.airs[air_id].ancillaries)
                              + BagTotal(st.airs[air_id].ancillaries)
                              + MealTotal(st.airs[air_id].ancillaries),
                  quote.currency)

RepriceWith(st, order_id, cart_id, air_id, quote) ==
    StorePricing(st, order_id, cart_id, Total(st, air_id, quote))

\* line 330 onwards: ShoppingCartState declares no flights_search
RepriceFrom(st, order_id, cart_id, air_id) ==
    IF ~HasAttr(st.carts[cart_id], "flights_search")
    THEN Raised(st, "AttributeError")
    ELSE RepriceWith(ensure_air(st, order_id, cart_id, air_id).st, order_id, cart_id, air_id,
                     FlightsQuote(st.orders[order_id], st.carts[cart_id]))

\* Returns [st, raised, exception, pricing, currency].
_reprice_cart(st, ctx, order_id, cart_id, air_id) ==
    RepriceFrom(ensure_order(ensure_shopping_cart(st, order_id, cart_id).st, order_id, ctx).st,
                order_id, cart_id, air_id)

\* A handler returns [st, raised, exception, payload, pricing, helper]: pricing
\* is what _reprice_cart returned to it, helper what its store helper returned
\* ([updated, warnings]) before the repricing call.
Handled(rp, payload, updated, warnings) ==
    [st |-> rp.st, raised |-> rp.raised, exception |-> rp.exception,
     payload |-> IF rp.raised THEN ok ELSE payload,
     pricing |-> rp.pricing,
     helper |-> [updated |-> updated, warnings |-> warnings]]

\* lines 434-455
SeatsPayload(request, rp, h) ==
    [error |-> "null",
     warnings |-> request.ctx.warnings \o h.warnings,
     rules |-> <<>>, banners |-> <<>>, status |-> 200,
     shoppingCart |-> [step |-> "SEATS", pricing |-> rp.pricing,
                       seatSelections |-> h.updated],
     mock |-> [kind |-> "SeatSelection", requestMethod |-> request.method,
               seatsCount |-> Len(h.updated)]]

SeatsRespond(request, h, rp) ==
    Handled(rp, SeatsPayload(request, rp, h), h.updated, h.warnings)

\* line 432 onwards
SeatsReprice(request, h) ==
    SeatsRespond(request, h,
        _reprice_cart(h.st, request.ctx, request.path_params.orderId,
                      request.path_params.shoppingCartId, request.path_params.airId))

\* lines 404-430
SeatsHelper(st, request) ==
    IF request.method = "DELETE"
    THEN _delete_store_seats(st, request.ctx, request.path_params.orderId,
                             request.path_params.shoppingCartId, request.path_params.airId,
                             request.query_params.segmentId)
    ELSE _update_store_seats(st, request.ctx, request.path_params.orderId,
                             request.path_params.shoppingCartId, request.path_params.airId,
                             _extract_seat_selections(request.body))

\* request is [method, ctx, env, path_params, query_params, body]
put_or_delete_seats(st, request) ==
    SeatsReprice(request,
        SeatsHelper(ensure_from_request(st, request.ctx, request.path_params).st, request))

-----------------------------------------------------------------------------
(* mocks_patched/mock_server/debug.py                                      *)

\* env is the value of MOCK_DEBUG in the process environment, lower-cased
debug_enabled(env) == env \in {"1", "true", "yes", "y", "on"}

\* payload["mock"] = mock_meta only if debug_enabled()
WithMock(payload, env, mock_meta) ==
    IF debug_enabled(env) THEN payload @@ [mock |-> mock_meta] ELSE payload

-----------------------------------------------------------------------------
(* mock_server/handlers/bags.py                                            *)

NonBlank(x) == x # ""

NormalisedBag(d) ==
    [passengerId |-> d.passengerId,
     routeId |-> IF d.routeId # "" THEN d.routeId ELSE d.segmentId,
     baggageIds |-> SelectSeq(d.baggageIds, NonBlank)]

\* body is [json, baggageSelections]
_extract_baggage_selections(body) ==
    IF ~IsObject(body) THEN <<>>
    ELSE LET raw_list == SelectSeq(body.baggageSelections, IsObject)
         IN  [i \in 1..Len(raw_list) |-> NormalisedBag(raw_list[i])]

\* A bag item that is never discounted.
_make_bag_item_regular(passenger_id, route_id, baggage_id, idx, currency) ==
    [id |-> <<passenger_id, route_id, baggage_id, idx>>,
     passengerId |-> passenger_id, routeId |-> route_id, baggageId |-> baggage_id,
     discounted |-> FALSE,
     amount |-> 30,
     currency |-> currency]

\* stable_id("bag", passenger|route|baggage|idx) is the tuple of its inputs
_make_bag_item(passenger_id, route_id, baggage_id, idx, currency) ==
    [id |-> <<passenger_id, route_id, baggage_id, idx>>,
     passengerId |-> passenger_id, routeId |-> route_id, baggageId |-> baggage_id,
     discounted |-> (idx = 0),
     amount |-> IF idx = 0 THEN 15 ELSE 30,
     currency |-> currency]

\* rid = str(sel.get("routeId") or "").strip() or "route-0"
RouteOf(sel) == IF sel.routeId # "" THEN sel.routeId ELSE "route-0"

\* lines 137-150: one valid entry; ids2 is the first two of its ids
KeepBag(acc, sel, ids2, currency) ==
    [normalized |-> Append(acc.normalized,
                        [passengerId |-> sel.passengerId, routeId |-> RouteOf(sel),
                         baggageIds |-> ids2]),
     items |-> acc.items \o
               [i \in 1..Len(ids2) |->
                   _make_bag_item(sel.passengerId, RouteOf(sel), ids2[i], i - 1, currency)],
     warnings |-> IF Len(sel.baggageIds) > 2
                  THEN Append(acc.warnings, Warning("BAG_LIMIT_APPLIED",
                          [passengerId |-> sel.passengerId, routeId |-> RouteOf(sel),
                           requested |-> Len(sel.baggageIds), kept |-> 2]))
                  ELSE acc.warnings]

\* one round of the loop over baggage_selections (lines 123-150)
ApplyBag(acc, sel, currency) ==
    IF sel.passengerId = ""
    THEN [acc EXCEPT !.warnings = Append(@, Warning("BAG_SELECTION_INVALID",
                                                    [routeId |-> RouteOf(sel)]))]
    ELSE KeepBag(acc, sel, Take(SelectSeq(sel.baggageIds, NonBlank), 2), currency)

RECURSIVE ApplyBags(_, _, _)
ApplyBags(acc, baggage_selections, currency) ==
    IF baggage_selections = <<>> THEN acc
    ELSE ApplyBags(ApplyBag(acc, Head(baggage_selections), currency),
                   Tail(baggage_selections), currency)

BaggagePricing(items, currency) ==
    [currency |-> currency, items |-> items,
     total |-> SumSeq([i \in 1..Len(items) |-> items[i].amount])]

\* lines 152-164; returns [st, selections, items, warnings]
StoreBags(st, air_id, acc, currency) ==
    [st |-> [st EXCEPT
                !.rev = @ + 1,
                !.airs[air_id].ancillaries =
                    AncSet(AncSet(AncSet(@, "baggageSelections", acc.normalized),
                                  "baggageItems", acc.items),
                           "baggagePricing", BaggagePricing(acc.items, currency)),
                !.airs[air_id].revision = st.rev + 1],
     selections |-> acc.normalized, items |-> acc.items, warnings |-> acc.warnings]

_apply_baggage(st, ctx, order_id, cart_id, air_id, baggage_selections, currency) ==
    StoreBags(EnsureAll(st, ctx, order_id, cart_id, air_id), air_id,
              ApplyBags([normalized |-> <<>>, items |-> <<>>, warnings |-> <<>>],
                        baggage_selections, currency),
              currency)

\* lines 240-256
BagsPayload(request, rp, selections, items, warnings, mock_meta) ==
    WithMock([error |-> "null", warnings |-> request.ctx.warnings \o warnings,
              rules |-> <<>>, banners |-> <<>>, status |-> 200,
              shoppingCart |-> [step |-> "BAGS", pricing |-> rp.pricing,
                                baggageSelections |-> selections,
                                baggageItems |-> items]],
             request.env, mock_meta)

BagsRespond(request, h, rp) ==
    Handled(rp,
            BagsPayload(request, rp, h.selections, h.items, h.warnings,
                        [kind |-> "BaggageSelection", bagsCount |-> Len(h.items)]),
            h.selections, h.warnings)

\* line 238 onwards
BagsReprice(request, h) ==
    BagsRespond(request, h,
        _reprice_cart(h.st, request.ctx, request.path_params.orderId,
                      request.path_params.shoppingCartId, request.path_params.airId))

\* lines 225-236: currency = order_state.currency
BagsApply(request, st) ==
    BagsReprice(request,
        _apply_baggage(st, request.ctx, request.path_params.orderId,
                       request.path_params.shoppingCartId, request.path_params.airId,
                       _extract_baggage_selections(request.body),
                       st.orders[request.path_params.orderId].currency))

\* A handler that counts its debug calls in the store revision.
put_select_baggage_counted(st, request) ==
    BagsApply(request,
        ensure_order(
            ensure_from_request(IF debug_enabled(request.env) THEN touch(st) ELSE st,
                                request.ctx, request.path_params).st,
            request.path_params.orderId, request.ctx).st)

put_select_baggage(st, request) ==
    BagsApply(request,
        ensure_order(ensure_from_request(st, request.ctx, request.path_params).st,
                     request.path_params.orderId, request.ctx).st)

\* lines 358-380; route_id = "" is "no routeId query parameter"
KeptBags(entries, route_id) ==
    LET Other(e) == e.routeId # route_id
    IN  IF route_id # "" THEN SelectSeq(entries, Other) ELSE <<>>

\* lines 382-385
ClearBags(st, air_id, route_id) ==
    [st |-> [st EXCEPT
                !.rev = @ + 1,
                !.airs[air_id].ancillaries =
                    AncSet(AncSet(@, "baggageSelections",
                                  KeptBags(AncList(@, "baggageSelections"), route_id)),
                           "baggageItems", KeptBags(AncList(@, "baggageItems"), route_id)),
                !.airs[air_id].revision = st.rev + 1],
     selections |-> KeptBags(AncList(st.airs[air_id].ancillaries, "baggageSelections"),
                             route_id),
     items |-> KeptBags(AncList(st.airs[air_id].ancillaries, "baggageItems"), route_id),
     warnings |-> <<>>]

\* lines 387-405
BagsDeleteRespond(request, h, rp) ==
    Handled(rp,
            BagsPayload(request, rp, h.selections, h.items,
                        <<Warning("BAGS_CLEARED", [routeId |-> request.query_params.routeId])>>,
                        [kind |-> "BaggageDelete", routeId |-> request.query_params.routeId,
                         bagsCount |-> Len(h.items)]),
            h.selections, h.warnings)

BagsDeleteReprice(request, h) ==
    BagsDeleteRespond(request, h,
        _reprice_cart(h.st, request.ctx, request.path_params.orderId,
                      request.path_params.shoppingCartId, request.path_params.airId))

delete_shopping_cart_bags(st, request) ==
    BagsDeleteReprice(request,
        ClearBags(EnsureAll(ensure_from_request(st, request.ctx, request.path_params).st,
                            request.ctx, request.path_params.orderId,
                            request.path_params.shoppingCartId, request.path_params.airId),
                  request.path_params.airId, request.query_params.routeId))

-----------------------------------------------------------------------------
(* mock_server/handlers/meals.py                                           *)

\* The catalog entry of a meal id: its category and price.
_meal_catalog(meal_id) ==
    CASE meal_id = "MEAL_GOURMET" -> [known |-> TRUE, category |-> "MEAL", amount |-> 18]
      [] meal_id = "MEAL_STANDARD" -> [known |-> TRUE, category |-> "MEAL", amount |-> 12]
      [] meal_id = "MEAL_VEG" -> [known |-> TRUE, category |-> "MEAL", amount |-> 12]
      [] meal_id = "DRINK_WATER" -> [known |-> TRUE, category |-> "DRINK", amount |-> 3]
      [] meal_id = "DRINK_SOFT" -> [known |-> TRUE, category |-> "DRINK", amount |-> 6]
      [] meal_id = "DRINK_CHAMPAGNE" -> [known |-> TRUE, category |-> "DRINK", amount |-> 35]
      [] OTHER -> [known |-> FALSE]

\* "DRINK" in mid.upper(), for the unknown ids of the model
NamesDrink(meal_id) == meal_id \in {"DRINK_TEA", "drink_tea"}

NormalisedMeal(d) ==
    [passengerId |-> d.passengerId,
     segmentId |-> IF d.segmentId # "" THEN d.segmentId ELSE d.routeId,
     mealId |-> d.mealId, mealSubcode |-> d.mealSubcode]

\* body is [json, mealSelections]
_extract_meal_selections(body) ==
    IF ~IsObject(body) THEN <<>>
    ELSE LET out == SelectSeq(body.mealSelections, IsObject)
         IN  [i \in 1..Len(out) |-> NormalisedMeal(out[i])]

\* lines 133-139
RECURSIVE IndexMeals(_, _)
IndexMeals(existing, idx) ==
    IF existing = <<>> THEN idx
    ELSE IndexMeals(Tail(existing),
            IF Head(existing).passengerId # "" /\ Head(existing).segmentId # ""
            THEN DictSet(idx, <<Head(existing).passengerId, Head(existing).segmentId>>,
                         Head(existing))
            ELSE idx)

\* one round of the loop over incoming (lines 141-154); acc is [idx, warnings]
MergeOne(acc, s) ==
    IF s.passengerId = "" \/ s.segmentId = "" \/ s.mealId = ""
    THEN [acc EXCEPT !.warnings = Append(@, Warning("MEAL_SELECTION_INVALID",
                [passengerId |-> s.passengerId, segmentId |-> s.segmentId,
                 mealId |-> s.mealId]))]
    ELSE [acc EXCEPT !.idx = DictSet(@, <<s.passengerId, s.segmentId>>, s)]

RECURSIVE MergeLoop(_, _)
MergeLoop(acc, incoming) ==
    IF incoming = <<>> THEN acc
    ELSE MergeLoop(MergeOne(acc, Head(incoming)), Tail(incoming))

\* The order of str on the ids of the model.
StrRank(x) ==
    CASE x = "" -> 0
      [] x = "P1" -> 1
      [] x = "P2" -> 2
      [] x = "S1" -> 3
      [] x = "S2" -> 4
      [] OTHER -> 5

\* (segmentId, passengerId) of a comes before that of b
KeyBefore(a, b) ==
    \/ StrRank(a.segmentId) < StrRank(b.segmentId)
    \/ /\ a.segmentId = b.segmentId
       /\ StrRank(a.passengerId) < StrRank(b.passengerId)

\* merged.sort(key=(segmentId, passengerId)): a stable insertion sort
RECURSIVE Insert(_, _)
Insert(sorted, x) ==
    IF sorted = <<>> THEN <<x>>
    ELSE IF KeyBefore(x, Head(sorted)) THEN <<x>> \o sorted
    ELSE <<Head(sorted)>> \o Insert(Tail(sorted), x)

RECURSIVE SortMerged(_, _)
SortMerged(merged, sorted) ==
    IF merged = <<>> THEN sorted
    ELSE SortMerged(Tail(merged), Insert(sorted, Head(merged)))

Sorted(acc) == [merged |-> SortMerged(DictValues(acc.idx), <<>>), warnings |-> acc.warnings]

\* Returns [merged, warnings].
_merge_selections(existing, incoming) ==
    Sorted(MergeLoop([idx |-> IndexMeals(existing, <<>>), warnings |-> <<>>], incoming))

MealItem(ctx, currency, s, opt) ==
    [id |-> <<ctx.conversation_id, s.passengerId, s.segmentId, s.mealId, s.mealSubcode>>,
     passengerId |-> s.passengerId, segmentId |-> s.segmentId,
     mealId |-> s.mealId, mealSubcode |-> s.mealSubcode,
     category |-> IF opt.known THEN opt.category
                  ELSE IF NamesDrink(s.mealId) THEN "DRINK" ELSE "MEAL",
     amount |-> IF opt.known THEN opt.amount
                ELSE IF NamesDrink(s.mealId) THEN 8 ELSE 10,
     currency |-> currency]

_build_meal_items(ctx, currency, selections) ==
    [i \in 1..Len(selections) |->
        MealItem(ctx, currency, selections[i], _meal_catalog(selections[i].mealId))]

\* lines 275-279; returns [st, merged, items, warnings]
StoreMeals(st, air_id, currency, merged, items, warnings) ==
    [st |-> [st EXCEPT
                !.rev = @ + 1,
                !.airs[air_id].ancillaries =
                    AncSet(AncSet(AncSet(@, "mealOptions", [currency |-> currency]),
                                  "mealSelections", merged),
                           "mealItems", items),
                !.airs[air_id].revision = st.rev + 1],
     merged |-> merged, items |-> items, warnings |-> warnings]

MealsPayload(request, rp, selections, items, warnings, mock_meta) ==
    WithMock([error |-> "null", warnings |-> request.ctx.warnings \o warnings,
              rules |-> <<>>, banners |-> <<>>, status |-> 200,
              shoppingCart |-> [step |-> "MEALS", pricing |-> rp.pricing,
                                mealSelections |-> selections, mealItems |-> items],
              mealSelections |-> selections, mealItems |-> items],
             request.env, mock_meta)

\* lines 284-312
MealsRespond(request, h, rp) ==
    Handled(rp,
            MealsPayload(request, rp, h.merged, h.items, h.warnings,
                         [kind |-> "MealsSelection", count |-> Len(h.merged)]),
            h.merged, h.warnings)

\* line 282
MealsReprice(request, h) ==
    MealsRespond(request, h,
        _reprice_cart(h.st, request.ctx, request.path_params.orderId,
                      request.path_params.shoppingCartId, request.path_params.airId))

\* lines 273-279
MealsStore(request, st, currency, m) ==
    MealsReprice(request,
        StoreMeals(st, request.path_params.airId, currency, m.merged,
                   _build_meal_items(request.ctx, currency, m.merged), m.warnings))

\* lines 263-272
MealsMerge(request, st, currency) ==
    MealsStore(request, st, currency,
        _merge_selections(AncList(st.airs[request.path_params.airId].ancillaries,
                                  "mealSelections"),
                          _extract_meal_selections(request.body)))

\* line 261: the currency comes from a first repricing, before anything is merged
MealsAfterReprice(request, rp) ==
    IF rp.raised THEN Handled(rp, ok, <<>>, <<>>)
    ELSE MealsMerge(request,
            ensure_air(rp.st, request.path_params.orderId,
                       request.path_params.shoppingCartId, request.path_params.airId).st,
            rp.currency)

put_select_meals(st, request) ==
    MealsAfterReprice(request,
        _reprice_cart(ensure_from_request(st, request.ctx, request.path_params).st,
                      request.ctx, request.path_params.orderId,
                      request.path_params.shoppingCartId, request.path_params.airId))

\* lines 349-357; segment_id = "" is "no segmentId or routeId query parameter"
KeptMeals(selections, segment_id) ==
    LET Other(s) == s.segmentId # segment_id
    IN  IF segment_id # "" THEN SelectSeq(selections, Other) ELSE <<>>

\* lines 359-362
ClearMeals(st, air_id, segment_id) ==
    [st |-> [st EXCEPT
                !.rev = @ + 1,
                !.airs[air_id].ancillaries =
                    AncSet(AncSet(@, "mealSelections",
                                  KeptMeals(AncList(@, "mealSelections"), segment_id)),
                           "mealItems", <<>>),
                !.airs[air_id].revision = st.rev + 1],
     merged |-> KeptMeals(AncList(st.airs[air_id].ancillaries, "mealSelections"), segment_id),
     items |-> <<>>,
     warnings |-> <<>>]

\* lines 370-373: the catalog is stored if the air has none
KeepOptions(rp, air_id) ==
    IF rp.raised \/ "mealOptions" \in DOMAIN rp.st.airs[air_id].ancillaries THEN rp
    ELSE [rp EXCEPT !.st.airs[air_id].ancillaries =
                        AncSet(@, "mealOptions", [currency |-> rp.currency])]

\* lines 366-397
MealsDeleteRespond(request, h, rp, segment_id) ==
    Handled(rp,
            MealsPayload(request, rp, h.merged, <<>>,
                         <<Warning("MEAL_SELECTION_CLEARED", [segmentId |-> segment_id])>>,
                         [kind |-> "MealsDelete", segmentId |-> segment_id]),
            h.merged, h.warnings)

\* line 364
MealsDeleteReprice(request, h, segment_id) ==
    MealsDeleteRespond(request, h,
        KeepOptions(_reprice_cart(h.st, request.ctx, request.path_params.orderId,
                                  request.path_params.shoppingCartId,
                                  request.path_params.airId),
                    request.path_params.airId),
        segment_id)

\* line 331: segmentId, else routeId
MealsFilter(query_params) ==
    IF query_params.segmentId # "" THEN query_params.segmentId ELSE query_params.routeId

delete_shopping_cart_meals(st, request) ==
    MealsDeleteReprice(request,
        ClearMeals(ensure_air(ensure_from_request(st, request.ctx, request.path_params).st,
                              request.path_params.orderId,
                              request.path_params.shoppingCartId,
                              request.path_params.airId).st,
                   request.path_params.airId, MealsFilter(request.query_params)),
        MealsFilter(request.query_params))

-----------------------------------------------------------------------------
(* mock_server/handlers/flights_selection.py                               *)

_find_option(option_set, option_id) == FindOption(option_set, option_id)

\* lines 73-94: currency = str(price.get("currency") or "USD")
_extract_solution_price(option, solution_id) ==
    IF SolutionPrice(option, solution_id).found
    THEN [SolutionPrice(option, solution_id) EXCEPT !.currency = Or(@, "USD")]
    ELSE [found |-> FALSE]

\* lines 107-114
Resolved(option_set, hit) ==
    IF ~hit.found \/ SelectedSolutionId(option_set, hit.option) = "" THEN [found |-> FALSE]
    ELSE _extract_solution_price(hit.option, SelectedSolutionId(option_set, hit.option))

\* lines 115-119: currency = cur or currency
Summed(acc, res) ==
    IF res.found
    THEN [total |-> acc.total + res.amount, currency |-> Or(res.currency, acc.currency)]
    ELSE acc

RECURSIVE TotalLoop(_, _)
TotalLoop(option_sets, acc) ==
    IF option_sets = <<>> THEN acc
    ELSE TotalLoop(Tail(option_sets),
                   Summed(acc, Resolved(Head(option_sets),
                                        _find_option(Head(option_sets),
                                                     SelectedOptionId(Head(option_sets))))))

_compute_total(search_obj) ==
    TotalLoop(search_obj.optionSets, [total |-> 0, currency |-> "USD"])

\* the index of the first option set whose id is option_set_id, 0 if none
_find_option_set(search_obj, option_set_id) ==
    LET hits == {i \in 1..Len(search_obj.optionSets) :
                    search_obj.optionSets[i].id = option_set_id}
    IN  IF hits = {} THEN 0 ELSE CHOOSE i \in hits : \A j \in hits : i <= j

_mark_selected(option_set, option_id, solution_id) ==
    [option_set EXCEPT !.options =
        [i \in 1..Len(@) |->
            [@[i] EXCEPT
                !.userSelected = (@[i].id = option_id),
                !.solutions = [j \in 1..Len(@) |->
                    [@[j] EXCEPT !.v.preselected = (@[j].k = solution_id)]]]]]

\* lines 217-220, 302-305
Selected(option_set, option_id, solution_id) ==
    _mark_selected([option_set EXCEPT
                       !.selection = [optionId |-> option_id, solutionId |-> solution_id],
                       !.optionId = option_id,
                       !.solutionId = solution_id],
                   option_id, solution_id)

\* What a flight-selection handler returns; it has no store helper.
Flights(st, raised, exception, payload, pricing) ==
    [st |-> st, raised |-> raised, exception |-> exception, payload |-> payload,
     pricing |-> pricing, helper |-> [updated |-> <<>>, warnings |-> <<>>]]

\* a handler that returns early with one more warning
Ignored(st, request, code) ==
    Flights(st, FALSE, "",
            [ok EXCEPT !.warnings = request.ctx.warnings \o <<Warning(code, <<>>)>>],
            NoPricing)

\* lines 49-54
NewAir(st, order_id, cart_id, air_id) ==
    [st |-> [ensure_air(st, order_id, cart_id, air_id).st EXCEPT
                !.rev = @ + 1,
                !.carts[cart_id].selected_airs = Append(@, air_id),
                !.orders[order_id].added_air_id = air_id],
     raised |-> FALSE, air_id |-> air_id]

\* lines 45-54
AirOfCart(st, order_id, cart_id) ==
    IF st.carts[cart_id].selected_airs # <<>>
    THEN [st |-> st, raised |-> FALSE, air_id |-> st.carts[cart_id].selected_airs[1]]
    ELSE NewAir(st, order_id, cart_id, "air-" \o order_id)

\* lines 42-43: OrderState declares no added_air_id
AirOfOrder(st, order_id, cart_id) ==
    IF ~HasAttr(st.orders[order_id], "added_air_id")
    THEN [st |-> st, raised |-> TRUE, air_id |-> ""]
    ELSE IF st.orders[order_id].added_air_id # ""
    THEN [st |-> st, raised |-> FALSE, air_id |-> st.orders[order_id].added_air_id]
    ELSE AirOfCart(ensure_shopping_cart(st, order_id, cart_id).st, order_id, cart_id)

\* Returns [st, raised, air_id].
_resolve_air_id(st, ctx, order_id, cart_id) ==
    AirOfOrder(ensure_order(st, order_id, ctx).st, order_id, cart_id)

\* lines 223-225, 308-311, 354-356: the cached pricing is the flights total
PriceFlights(st, cart_id, quote) ==
    [st EXCEPT !.rev = @ + 1,
               !.carts[cart_id].pricing = _make_pricing(quote.total, quote.currency),
               !.carts[cart_id].revision = st.rev + 1]

FlightsPayload(request, step, quote, mock_meta) ==
    [error |-> "null", warnings |-> request.ctx.warnings, rules |-> <<>>,
     banners |-> <<>>, status |-> 200,
     shoppingCart |-> [step |-> step,
                       pricing |-> _make_pricing(quote.total, quote.currency)],
     mock |-> mock_meta]

\* lines 228-237, 359-363: the selection is noted on the air
NoteSelection(st, air_id, flightsSelection) ==
    [st EXCEPT !.rev = @ + 1,
               !.airs[air_id].revision = st.rev + 1,
               !.airs[air_id].ancillaries = AncSet(@, "flightsSelection", flightsSelection)]

\* lines 227-264
SelectNoted(request, r, quote) ==
    IF r.raised THEN Flights(r.st, TRUE, "AttributeError", ok, NoPricing)
    ELSE Flights(
            NoteSelection(
                ensure_air(r.st, request.path_params.orderId,
                           request.path_params.shoppingCartId, r.air_id).st,
                r.air_id,
                [confirmed |-> FALSE, optionSetId |-> request.path_params.optionSetId,
                 optionId |-> request.path_params.optionId,
                 solutionId |-> request.path_params.solutionId]),
            FALSE, "",
            FlightsPayload(request, "FLIGHTS_SELECTION", quote,
                           [kind |-> "FlightsSelection", total |-> quote.total]),
            NoPricing)

\* lines 222-227
SelectPriced(request, st, search_obj) ==
    SelectNoted(request,
        _resolve_air_id(
            PriceFlights([st EXCEPT
                            !.carts[request.path_params.shoppingCartId].flights_search =
                                search_obj],
                         request.path_params.shoppingCartId, _compute_total(search_obj)),
            request.ctx, request.path_params.orderId, request.path_params.shoppingCartId),
        _compute_total(search_obj))

\* lines 194-220
SelectIn(request, st, search_obj, i) ==
    IF i = 0 THEN Ignored(st, request, "OPTION_SET_NOT_FOUND")
    ELSE IF ~_find_option(search_obj.optionSets[i], request.path_params.optionId).found
    THEN Ignored(st, request, "OPTION_NOT_FOUND")
    ELSE SelectPriced(request, st,
            [search_obj EXCEPT !.optionSets[i] =
                Selected(@, request.path_params.optionId, request.path_params.solutionId)])

\* lines 183-192: ShoppingCartState declares no flights_search
SelectFrom(request, st) ==
    IF ~HasAttr(st.carts[request.path_params.shoppingCartId], "flights_search")
    THEN Flights(st, TRUE, "AttributeError", ok, NoPricing)
    ELSE IF ~st.carts[request.path_params.shoppingCartId].flights_search.present
    THEN Ignored(st, request, "NO_SEARCH_CONTEXT")
    ELSE SelectIn(request, st, st.carts[request.path_params.shoppingCartId].flights_search,
                  _find_option_set(st.carts[request.path_params.shoppingCartId].flights_search,
                                   request.path_params.optionSetId))

put_select_option_solution(st, request) ==
    SelectFrom(request,
        ensure_shopping_cart(
            ensure_order(st, request.path_params.orderId, request.ctx).st,
            request.path_params.orderId, request.path_params.shoppingCartId).st)

\* lines 293-297
CheapestOptionId(option_set) ==
    IF option_set.cheapestOptionId # "" THEN option_set.cheapestOptionId
    ELSE IF option_set.options # <<>> THEN option_set.options[1].id
    ELSE ""

\* lines 292-305: one option set goes back to its cheapest option and solution
Reset(option_set, hit) ==
    IF ~hit.found THEN option_set
    ELSE Selected(option_set, hit.option.id,
                  Or(hit.option.cheapestSolutionId, option_set.solutionId))

ResetAll(search_obj) ==
    [search_obj EXCEPT !.optionSets =
        [i \in 1..Len(@) |-> Reset(@[i], _find_option(@[i], CheapestOptionId(@[i])))]]

\* lines 313-320
DeselectResolved(request, r, quote) ==
    IF r.raised THEN Flights(r.st, TRUE, "AttributeError", ok, NoPricing)
    ELSE Flights(r.st, FALSE, "",
                 FlightsPayload(request, "FLIGHTS_SEARCH", quote,
                                [kind |-> "FlightsDeselect"]),
                 NoPricing)

\* lines 307-313; ShoppingCartState declares no selection_confirmed, so the
\* assignment of line 309 raises after the pricing was cached
DeselectPriced(request, st, search_obj) ==
    IF ~HasAttr(st.carts[request.path_params.shoppingCartId], "selection_confirmed")
    THEN Flights([st EXCEPT
                    !.carts[request.path_params.shoppingCartId].flights_search = search_obj,
                    !.carts[request.path_params.shoppingCartId].pricing =
                        _make_pricing(_compute_total(search_obj).total,
                                      _compute_total(search_obj).currency)],
                 TRUE, "AttributeError", ok, NoPricing)
    ELSE DeselectResolved(request,
            _resolve_air_id(
                PriceFlights([st EXCEPT
                    !.carts[request.path_params.shoppingCartId].flights_search = search_obj,
                    !.carts[request.path_params.shoppingCartId].selection_confirmed = FALSE],
                    request.path_params.shoppingCartId, _compute_total(search_obj)),
                request.ctx, request.path_params.orderId,
                request.path_params.shoppingCartId),
            _compute_total(search_obj))

\* lines 287-289: this warning has a code and a message, and no details
Unreset(st, request) ==
    Flights(st, FALSE, "",
            [ok EXCEPT !.warnings =
                request.ctx.warnings
                \o <<[code |-> "NO_SEARCH_CONTEXT", message |-> "NO_SEARCH_CONTEXT"]>>],
            NoPricing)

\* lines 286-289
DeselectFrom(request, st) ==
    IF ~HasAttr(st.carts[request.path_params.shoppingCartId], "flights_search")
    THEN Flights(st, TRUE, "AttributeError", ok, NoPricing)
    ELSE IF ~st.carts[request.path_params.shoppingCartId].flights_search.present
    THEN Unreset(st, request)
    ELSE DeselectPriced(request, st,
            ResetAll(st.carts[request.path_params.shoppingCartId].flights_search))

put_deselect_options(st, request) ==
    DeselectFrom(request,
        ensure_shopping_cart(st, request.path_params.orderId,
                             request.path_params.shoppingCartId).st)

\* lines 342-343
ConfirmQuote(search_obj) ==
    IF search_obj.present THEN _compute_total(search_obj)
    ELSE [total |-> 0, currency |-> "USD"]

\* lines 359-363
Confirmation(anc, confirmed) ==
    IF "flightsSelection" \in DOMAIN anc
    THEN [anc["flightsSelection"] EXCEPT !.confirmed = confirmed]
    ELSE [confirmed |-> confirmed]

\* lines 358-379
ConfirmNoted(request, r, air, quote, confirmed) ==
    Flights(NoteSelection(air.st, r.air_id,
                          Confirmation(air.st.airs[r.air_id].ancillaries, confirmed)),
            FALSE, "",
            FlightsPayload(request,
                           IF confirmed THEN "ANCILLARIES" ELSE "FLIGHTS_SELECTION", quote,
                           [kind |-> "FlightsSelectionConfirmation",
                            confirmed |-> confirmed, total |-> quote.total]),
            NoPricing)

ConfirmResolved(request, r, quote, confirmed) ==
    IF r.raised THEN Flights(r.st, TRUE, "AttributeError", ok, NoPricing)
    ELSE ConfirmNoted(request, r,
            ensure_air(r.st, request.path_params.orderId,
                       request.path_params.shoppingCartId, r.air_id),
            quote, confirmed)

\* lines 345-358
ConfirmPriced(request, st, quote, confirmed) ==
    IF ~HasAttr(st.carts[request.path_params.shoppingCartId], "selection_confirmed")
    THEN Flights(st, TRUE, "AttributeError", ok, NoPricing)
    ELSE ConfirmResolved(request,
            _resolve_air_id(
                PriceFlights([st EXCEPT
                    !.carts[request.path_params.shoppingCartId].selection_confirmed =
                        confirmed],
                    request.path_params.shoppingCartId, quote),
                request.ctx, request.path_params.orderId,
                request.path_params.shoppingCartId),
            quote, confirmed)

\* line 342
ConfirmFrom(request, st) ==
    IF ~HasAttr(st.carts[request.path_params.shoppingCartId], "flights_search")
    THEN Flights(st, TRUE, "AttributeError", ok, NoPricing)
    ELSE ConfirmPriced(request, st,
            ConfirmQuote(st.carts[request.path_params.shoppingCartId].flights_search),
            request.method = "POST")

selection_confirmation(st, request) ==
    ConfirmFrom(request,
        ensure_shopping_cart(st, request.path_params.orderId,
                             request.path_params.shoppingCartId).st)

-----------------------------------------------------------------------------
(* mock_server/server.py                                                   *)

\* A handler that raised is answered with the error envelope, which carries
\* the context warnings only.
_exception_guard(result, ctx) ==
    IF result.raised
    THEN with_context_warnings(fail(result.exception), ctx.warnings)
    ELSE result.payload

-----------------------------------------------------------------------------
(* Requests                                                                *)

Ctx == [conversation_id |-> "k1", application |-> "IBE", flow |-> "BOOKING",
        locale |-> "en-US", warnings |-> <<>>]

\* Every ancillary request addresses the same order, cart and air.
AncPath == [orderId |-> "o1", shoppingCartId |-> "c1", airId |-> "a1", profileId |-> ""]

\* The flight-selection routes name the order, the cart and the selection.
FlightPath ==
    [orderId |-> "o1", shoppingCartId |-> "c1", optionSetId |-> "os1",
     optionId |-> "op1", solutionId |-> "sol1"]

NoQuery == [segmentId |-> "", routeId |-> ""]

Request(method, path_params, query_params, body) ==
    [method |-> method, ctx |-> Ctx, env |-> mock_debug, path_params |-> path_params,
     query_params |-> query_params, body |-> body]

NotAnObject == [json |-> "other"]

SeatObj(pid, sid, rn, sn) ==
    [json |-> "object", passengerId |-> pid, segmentId |-> sid,
     rowNumber |-> rn, seatNumber |-> sn]

SeatItems ==
    {SeatObj("P1", "S1", "12", "A"), SeatObj("P1", "S1", "14", "C"),
     SeatObj("P2", "S1", "12", "a"), SeatObj("P1", "S2", "12", "A"),
     SeatObj("", "S1", "12", "A"), SeatObj("P2", "", "14", "C"),
     NotAnObject}

\* The items of the specification that mixes all handlers.
CartSeatItems ==
    {SeatObj("P1", "S1", "12", "A"), SeatObj("P2", "S1", "12", "a"),
     SeatObj("P1", "S2", "12", "A"), SeatObj("", "S1", "12", "A")}

SeatBodies(items) ==
    {[json |-> "object", seatSelections |-> payload] :
        payload \in SeqsUpTo(items, MaxPayloadLen)}

SegmentFilters == {"", "S1", "S2"}

BagObj(pid, rid, sid, ids) ==
    [json |-> "object", passengerId |-> pid, routeId |-> rid, segmentId |-> sid,
     baggageIds |-> ids]

BagIds(n) == SubSeq(<<"b1", "b2", "b3", "b4", "b5">>, 1, n)

BagItems ==
    {BagObj("P1", "R1", "", BagIds(n)) : n \in 1..MaxBagIds}
    \cup {BagObj("P2", "R1", "", BagIds(1)), BagObj("P1", "", "R2", BagIds(1)),
          BagObj("", "R1", "", BagIds(1)), BagObj("P1", "", "", BagIds(1)),
          NotAnObject}

CartBagItems ==
    {BagObj("P1", "R1", "", BagIds(1)), BagObj("P1", "", "R2", BagIds(1)),
     BagObj("", "R1", "", BagIds(1)), BagObj("P1", "", "", BagIds(1))}

BagBodies(items) ==
    {[json |-> "object", baggageSelections |-> payload] :
        payload \in SeqsUpTo(items, MaxPayloadLen)}

RouteFilters == {"", "R1", "R2"}

MealObj(pid, sid, mid) ==
    [json |-> "object", passengerId |-> pid, segmentId |-> sid, routeId |-> "",
     mealId |-> mid, mealSubcode |-> ""]

MealItems ==
    {MealObj("P1", "S1", "MEAL_GOURMET"), MealObj("P1", "S2", "DRINK_TEA"),
     MealObj("", "S1", "MEAL_GOURMET")}

MealBodies(items) ==
    {[json |-> "object", mealSelections |-> payload] :
        payload \in SeqsUpTo(items, MaxPayloadLen)}

-----------------------------------------------------------------------------
(* mock_server/versioning.py                                               *)

\* hashlib.sha1(seed.encode("utf-8")).hexdigest()[:length], tabulated on the
\* seeds the searches of the model give
Sha1Hex(seed, length) ==
    CASE seed = "k1|BOOKING|ONE_WAY|AAA|BBB|2026-02-01" /\ length = 16 -> "42e55cbbb3888021"
      [] seed = "k1|BOOKING|ONE_WAY|AAA|BBB|2026-02-01:0" /\ length = 12 -> "087caca7f976"
      [] seed = "optset-087caca7f976:cheap" /\ length = 12 -> "8211062b3e85"
      [] seed = "opt-8211062b3e85:1" /\ length = 12 -> "49c3471fe94e"
      [] seed = "opt-8211062b3e85:2" /\ length = 12 -> "3e9845c4f6da"
      [] seed = "opt-8211062b3e85:ECONOMYLITE" /\ length = 12 -> "1452cbba9e89"
      [] seed = "opt-8211062b3e85:ECONOMYSTANDARD" /\ length = 12 -> "934c4f80c714"
      [] seed = "opt-8211062b3e85:ECONOMYFLEX" /\ length = 12 -> "92d2f00b5d52"
      [] seed = "optset-087caca7f976:fast" /\ length = 12 -> "9b757b5b6e2a"
      [] seed = "opt-9b757b5b6e2a:0" /\ length = 12 -> "3a16c217895b"
      [] seed = "opt-9b757b5b6e2a:ECONOMYLITE" /\ length = 12 -> "781cd887bcf5"
      [] seed = "opt-9b757b5b6e2a:ECONOMYSTANDARD" /\ length = 12 -> "b75c81487e76"
      [] seed = "opt-9b757b5b6e2a:ECONOMYFLEX" /\ length = 12 -> "36cefb913f6d"
      [] seed = "optset-087caca7f976:conv" /\ length = 12 -> "23a50332a9e2"
      [] seed = "opt-23a50332a9e2:0" /\ length = 12 -> "72b719368945"
      [] seed = "opt-23a50332a9e2:ECONOMYLITE" /\ length = 12 -> "ec146fa24571"
      [] seed = "opt-23a50332a9e2:ECONOMYSTANDARD" /\ length = 12 -> "7b0884b85d9d"
      [] seed = "opt-23a50332a9e2:ECONOMYFLEX" /\ length = 12 -> "5768dd1e1bd9"
      [] seed = "k1|BOOKING|ONE_WAY|ROM|MIL|2026-03-01" /\ length = 16 -> "ad54713582c649c1"
      [] seed = "k1|BOOKING|ONE_WAY|ROM|MIL|2026-03-01:0" /\ length = 12 -> "26d97198fcf7"
      [] seed = "optset-26d97198fcf7:cheap" /\ length = 12 -> "a1e531d1b5f1"
      [] seed = "opt-a1e531d1b5f1:1" /\ length = 12 -> "34449938c5bf"
      [] seed = "opt-a1e531d1b5f1:2" /\ length = 12 -> "86a03a45cd73"
      [] seed = "opt-a1e531d1b5f1:ECONOMYLITE" /\ length = 12 -> "3f9d20e2445e"
      [] seed = "opt-a1e531d1b5f1:ECONOMYSTANDARD" /\ length = 12 -> "2bf0e8e5e7ca"
      [] seed = "opt-a1e531d1b5f1:ECONOMYFLEX" /\ length = 12 -> "bd9b324f7409"
      [] seed = "optset-26d97198fcf7:fast" /\ length = 12 -> "32c6decfa5d4"
      [] seed = "opt-32c6decfa5d4:0" /\ length = 12 -> "ac127753f55c"
      [] seed = "opt-32c6decfa5d4:ECONOMYLITE" /\ length = 12 -> "8b33d77e9471"
      [] seed = "opt-32c6decfa5d4:ECONOMYSTANDARD" /\ length = 12 -> "397bccc7d973"
      [] seed = "opt-32c6decfa5d4:ECONOMYFLEX" /\ length = 12 -> "ad7968b946cc"
      [] seed = "optset-26d97198fcf7:conv" /\ length = 12 -> "926b348eba98"
      [] seed = "opt-926b348eba98:0" /\ length = 12 -> "dc4a029eca71"
      [] seed = "opt-926b348eba98:ECONOMYLITE" /\ length = 12 -> "f038e3589368"
      [] seed = "opt-926b348eba98:ECONOMYSTANDARD" /\ length = 12 -> "4861008faacc"
      [] seed = "opt-926b348eba98:ECONOMYFLEX" /\ length = 12 -> "574edca179e6"
      [] seed = "k1|S1|P1|0" /\ length = 8 -> "9a0c32cf"
      [] seed = "k1|S1|P1|1" /\ length = 8 -> "3bdaef24"
      [] seed = "k1|S1|P1|2" /\ length = 8 -> "c1db1b7a"
      [] seed = "k1|S1|P2|0" /\ length = 8 -> "ad36fe9e"
      [] seed = "k1|S1|P2|1" /\ length = 8 -> "8caa0e1b"
      [] seed = "k1|S1|P2|2" /\ length = 8 -> "cfdf4a2e"
      [] seed = "k1|S2|P1|0" /\ length = 8 -> "e60e179b"
      [] seed = "k1|S2|P1|1" /\ length = 8 -> "1372cf19"
      [] seed = "k1|S2|P1|2" /\ length = 8 -> "0dc383eb"

stable_id(prefix, seed, length) == prefix \o "-" \o Sha1Hex(seed, length)

-----------------------------------------------------------------------------
(* mock_server/handlers/seats.py: POST .../seats/preselect                 *)

\* int(hex_part, 16) modulo 90, tabulated on the seat seeds of the model; the
\* row uses the number modulo 30 and the column the number modulo 9, which the
\* number modulo 90 fixes, also after n += 1
HexMod90(hex_part) ==
    CASE hex_part = "9a0c32cf" -> 33
      [] hex_part = "3bdaef24" -> 12
      [] hex_part = "c1db1b7a" -> 66
      [] hex_part = "ad36fe9e" -> 24
      [] hex_part = "8caa0e1b" -> 81
      [] hex_part = "cfdf4a2e" -> 40
      [] hex_part = "e60e179b" -> 17
      [] hex_part = "1372cf19" -> 5
      [] hex_part = "0dc383eb" -> 49

\* row = start_row + (n % 30), col = cols[n % len(cols)]
SeatAt(n) ==
    [row |-> ToString(20 + (n % 30)),
     col |-> <<"A", "B", "C", "D", "F", "G", "H", "J", "K">>[(n % 9) + 1]]

\* the loop of 200 tries: the first seat from n on that is not used, and the
\* seat reached after the last try if all were used
RECURSIVE FreeSeat(_, _, _)
FreeSeat(n, used, tries) ==
    IF tries = 0 \/ (SeatAt(n).row \o SeatAt(n).col) \notin used THEN SeatAt(n)
    ELSE FreeSeat((n + 1) % 90, used, tries - 1)

_auto_assign_seat(seed, used) == FreeSeat(HexMod90(Sha1Hex(seed, 8)), used, 200)

\* lines 574-588: the entry of the answer for the selection s
Preselected(s, seat) ==
    [passengerId |-> s.passengerId, segmentId |-> s.segmentId,
     rowNumber |-> seat.row, seatNumber |-> seat.col]

RECURSIVE PreselectLoop(_, _, _, _, _)
\* lines 568-588: idx counts from 0; an entry without passenger or segment is
\* skipped
PreselectLoop(ctx, selections_in, idx, used, out) ==
    IF idx >= Len(selections_in) THEN out
    ELSE IF selections_in[idx + 1].passengerId = "" \/ selections_in[idx + 1].segmentId = ""
    THEN PreselectLoop(ctx, selections_in, idx + 1, used, out)
    ELSE LET seat == _auto_assign_seat(
                        ctx.conversation_id \o "|" \o selections_in[idx + 1].segmentId
                            \o "|" \o selections_in[idx + 1].passengerId
                            \o "|" \o ToString(idx), used)
         IN  PreselectLoop(ctx, selections_in, idx + 1,
                           used \cup {seat.row \o seat.col},
                           Append(out, Preselected(selections_in[idx + 1], seat)))

\* lines 590-594: the mock object is set whatever MOCK_DEBUG says
PreselectPayload(request, out) ==
    [ok EXCEPT !.warnings = request.ctx.warnings]
        @@ [seatSelections |-> out,
            mock |-> [kind |-> "SeatsPreselect", count |-> Len(out)]]

\* The handler reads no store.
post_seats_preselect(st, request) ==
    Flights(st, FALSE, "",
            PreselectPayload(request,
                PreselectLoop(request.ctx, _extract_seat_selections(request.body),
                              0, {}, <<>>)),
            NoPricing)

-----------------------------------------------------------------------------
(* mock_server/handlers/flights_search.py: POST /api/v1/flights/search     *)

\* The attributes class MockStateStore defines (state.py lines 84-253).  A
\* call of any other name on the store, or on the class, raises
\* AttributeError.
StoreMethods ==
    {"_bump_global", "global_revision", "touch", "ensure_conversation", "ensure_order",
     "ensure_shopping_cart", "ensure_air", "ensure_profile", "ensure_from_request"}

HasMethod(name) == name \in StoreMethods

\* lines 347-358; search_params is [tripType, currency, routes], "" is an
\* absent value
_extract_routes(search_params) ==
    IF search_params.routes = <<>>
    THEN <<[origin |-> "AAA", destination |-> "BBB", departureDate |-> "2026-02-01"]>>
    ELSE [i \in 1..Len(search_params.routes) |->
            [origin |-> Or(search_params.routes[i].origin, "AAA"),
             destination |-> Or(search_params.routes[i].destination, "BBB"),
             departureDate |-> Or(search_params.routes[i].departureDate, "2026-02-01")]]

RECURSIVE JoinRoutes(_)
JoinRoutes(routes) ==
    IF routes = <<>> THEN ""
    ELSE "|" \o routes[1].origin \o "|" \o routes[1].destination \o "|"
         \o routes[1].departureDate \o JoinRoutes(Tail(routes))

_search_key(ctx, search_params) ==
    ctx.conversation_id \o "|" \o ctx.flow \o "|" \o Or(search_params.tripType, "ONE_WAY")
    \o JoinRoutes(_extract_routes(search_params))

\* lines 166-170
FareFamilies ==
    <<[ff |-> "ECONOMYLITE", surcharge |-> 0], [ff |-> "ECONOMYSTANDARD", surcharge |-> 35],
      [ff |-> "ECONOMYFLEX", surcharge |-> 85]>>

\* lines 245-256
Solutions(option_id, currency, base_amount) ==
    [i \in 1..Len(FareFamilies) |->
        [k |-> stable_id("sol", option_id \o ":" \o FareFamilies[i].ff, 12),
         v |-> [amount |-> base_amount + FareFamilies[i].surcharge, currency |-> currency,
                preselected |-> (i = 1)]]]

\* lines 174-243: a direct option has one segment, the other two
Segments(option_id, direct) ==
    IF direct THEN <<stable_id("seg", option_id \o ":0", 12)>>
    ELSE <<stable_id("seg", option_id \o ":1", 12), stable_id("seg", option_id \o ":2", 12)>>

_build_option(option_id, currency, base_amount, direct) ==
    [id |-> option_id, segments |-> Segments(option_id, direct),
     solutions |-> Solutions(option_id, currency, base_amount),
     cheapestSolutionId |-> Solutions(option_id, currency, base_amount)[1].k,
     userSelected |-> FALSE]

\* lines 324-344: the default selection is the first option and its first solution
OptionSet(set_id, options) ==
    [id |-> set_id, options |-> options,
     selection |-> [optionId |-> options[1].id,
                    solutionId |-> options[1].cheapestSolutionId],
     optionId |-> options[1].id, solutionId |-> options[1].cheapestSolutionId,
     cheapestOptionId |-> options[1].id]

\* lines 280-322
Options(set_id, index, currency) ==
    <<_build_option(stable_id("opt", set_id \o ":cheap", 12), currency,
                    119 + index * 15, FALSE),
      _build_option(stable_id("opt", set_id \o ":fast", 12), currency,
                    149 + index * 15, TRUE),
      _build_option(stable_id("opt", set_id \o ":conv", 12), currency,
                    179 + index * 15, TRUE)>>

_build_option_set(index, currency, seed) ==
    OptionSet(stable_id("optset", seed \o ":" \o ToString(index), 12),
              Options(stable_id("optset", seed \o ":" \o ToString(index), 12),
                      index, currency))

NoBundle(st) == [st |-> st, raised |-> TRUE, order_id |-> "", cart_id |-> "", air_id |-> ""]

\* lines 386-392: OrderState declares no added_air_id, so line 387 raises
Linked(st, order_id, cart_id, air_id) ==
    IF ~HasAttr(st.orders[order_id], "added_air_id") THEN NoBundle(st)
    ELSE [st |-> [st EXCEPT
                    !.orders[order_id].added_air_id = air_id,
                    !.carts[cart_id].selected_airs =
                        IF air_id \in Range(@) THEN @ ELSE Append(@, air_id)],
          raised |-> FALSE, order_id |-> order_id, cart_id |-> cart_id, air_id |-> air_id]

\* lines 381-392
Bundle(st, ctx, order_id, cart_id, air_id) ==
    Linked(ensure_air(
               ensure_shopping_cart(ensure_order(st, order_id, ctx).st, order_id, cart_id).st,
               order_id, cart_id, air_id).st,
           order_id, cart_id, air_id)

\* Returns [st, raised, order_id, cart_id, air_id].  MockStateStore defines
\* neither get_search_bundle (line 371) nor ensure_search_bundle (line 380).
_ensure_bundle(st, ctx, search_key) ==
    IF ~HasMethod("get_search_bundle") \/ ~HasMethod("ensure_search_bundle")
    THEN NoBundle(st)
    ELSE Bundle(st, ctx, stable_id("order", search_key, 16),
                stable_id("cart", search_key, 16), stable_id("air", search_key, 16))

\* lines 446-468
SearchObj(search_params, key) ==
    [present |-> TRUE,
     optionSets |-> [i \in 1..Len(_extract_routes(search_params)) |->
                        _build_option_set(i - 1, Or(search_params.currency, "USD"), key)]]

RECURSIVE Flat(_)
Flat(seqs) == IF seqs = <<>> THEN <<>> ELSE seqs[1] \o Flat(Tail(seqs))

\* lines 479-485: the segment ids of every option of every option set
SegmentsOf(search_obj) ==
    Flat([i \in 1..Len(search_obj.optionSets) |->
            Flat([j \in 1..Len(search_obj.optionSets[i].options) |->
                    search_obj.optionSets[i].options[j].segments])])

\* lines 487-505
SearchPayload(request, b, search_obj) ==
    WithMock([ok EXCEPT !.warnings = request.ctx.warnings]
                 @@ [shoppingCart |-> [step |-> "FLIGHTS_SEARCH",
                                       pricing |-> _make_pricing(0, "USD")],
                     search |-> search_obj],
             request.env,
             [kind |-> "FlightsSearchResponse", orderId |-> b.order_id,
              shoppingCartId |-> b.cart_id, airId |-> b.air_id])

\* lines 472-485: ShoppingCartState declares no flights_search
SearchStored(request, b, search_obj) ==
    IF b.raised THEN Flights(b.st, TRUE, "AttributeError", ok, NoPricing)
    ELSE IF ~HasAttr(b.st.carts[b.cart_id], "flights_search")
    THEN Flights(b.st, TRUE, "AttributeError", ok, NoPricing)
    ELSE Flights([b.st EXCEPT !.carts[b.cart_id].flights_search = search_obj,
                              !.airs[b.air_id].segments = SegmentsOf(search_obj)],
                 FALSE, "", SearchPayload(request, b, search_obj), NoPricing)

\* request.body is [json, searchParams]
post_flights_search(st, request) ==
    SearchStored(request,
                 _ensure_bundle(st, request.ctx,
                                _search_key(request.ctx, request.body.searchParams)),
                 SearchObj(request.body.searchParams,
                           _search_key(request.ctx, request.body.searchParams)))

-----------------------------------------------------------------------------
(* mock_server/known_routes.py                                             *)

CartRoutes == "/api/v1/orders/{orderId}/shoppingCarts/{shoppingCartId}"

AirRoutes == CartRoutes \o "/airs/{airId}"

SelectionRoute ==
    "/flights/search/optionSets/{optionSetId}/option/{optionId}/solution/{solutionId}"

\* lines 953-1006: the name of the stateful handler of a known route, or "None"
_override_handler(path, methods) ==
    CASE path = "/api/v1/flights/search" /\ "POST" \in methods -> "post_flights_search"
      [] path = "/api/v1/flights/search/deeplink" /\ "POST" \in methods
            -> "post_flights_search"
      [] path = CartRoutes \o "/flights/search" /\ "POST" \in methods
            -> "post_flights_search_with_cart"
      [] path = CartRoutes \o SelectionRoute /\ "PUT" \in methods
            -> "put_select_option_solution"
      [] path = "/api/v1/upsell/orders/{orderId}/shoppingCarts/{shoppingCartId}"
                    \o SelectionRoute /\ "PUT" \in methods
            -> "put_select_option_solution"
      [] path = CartRoutes \o "/flights/search/deselect/options" /\ "PUT" \in methods
            -> "put_deselect_options"
      [] path = CartRoutes \o "/flights/search/selection/confirmation"
            /\ ("POST" \in methods \/ "DELETE" \in methods)
            -> "selection_confirmation"
      [] path = AirRoutes \o "/cabins" /\ "GET" \in methods -> "get_cabins_cart"
      [] path = "/api/v1/shoppingCarts/{shoppingCartId}/airs/{airId}/cabins"
            /\ "GET" \in methods -> "get_cabins_cart_short"
      [] path = "/api/v1/orders/{orderId}/airs/{airId}/cabins" /\ "GET" \in methods
            -> "get_cabins_postsell"
      [] path = "/api/v1/orders/{orderId}/airs/{airId}/segments/{segmentId}"
                    \o "/passengers/{passengerId}/cabins" /\ "GET" \in methods
            -> "get_cabins_v2"
      [] path = AirRoutes \o "/seats" /\ ("PUT" \in methods \/ "DELETE" \in methods)
            -> "put_or_delete_seats"
      [] path = AirRoutes \o "/ancillaries/seats" /\ "PUT" \in methods
            -> "put_ancillaries_seats"
      [] path = AirRoutes \o "/seats/preselect"
            /\ ("POST" \in methods \/ "PUT" \in methods) -> "post_seats_preselect"
      [] path = AirRoutes \o "/preseat/suggestion" /\ "POST" \in methods
            -> "post_seats_preselect"
      [] path = CartRoutes \o "/extraseat/seats/preselect" /\ "POST" \in methods
            -> "post_seats_preselect"
      [] path = AirRoutes \o "/special-assistance-seats/update" /\ "POST" \in methods
            -> "post_special_assistance_seats_update"
      [] OTHER -> "None"

\* lines 1012-1020: handler = _override_handler(path, methods) or _known_stub
register_known_routes(route) ==
    IF _override_handler(route.path, route.methods) # "None"
    THEN _override_handler(route.path, route.methods)
    ELSE "_known_stub"

\* lines 927-948
StubAnswer(request, auto_created) ==
    Flights(auto_created.st, FALSE, "",
            [ok EXCEPT !.warnings =
                request.ctx.warnings \o auto_created.warnings
                \o <<Warning("NOT_IMPLEMENTED", [method |-> request.method])>>]
            @@ [_mock |-> [revision |-> auto_created.st.rev]],
            NoPricing)

\* line 925: MockStateStore defines no get
_known_stub(st, request) ==
    IF ~HasMethod("get") THEN Flights(st, TRUE, "AttributeError", ok, NoPricing)
    ELSE StubAnswer(request, ensure_from_request(st, request.ctx, request.path_params))

\* The call of the handler a route was registered with.
Call(handler, st, request) ==
    CASE handler = "post_flights_search" -> post_flights_search(st, request)
      [] handler = "put_or_delete_seats" -> put_or_delete_seats(st, request)
      [] handler = "put_select_option_solution" -> put_select_option_solution(st, request)
      [] handler = "put_deselect_options" -> put_deselect_options(st, request)
      [] handler = "selection_confirmation" -> selection_confirmation(st, request)
      [] handler = "put_select_baggage" -> put_select_baggage(st, request)
      [] handler = "delete_shopping_cart_bags" -> delete_shopping_cart_bags(st, request)
      [] handler = "put_select_meals" -> put_select_meals(st, request)
      [] handler = "delete_shopping_cart_meals" -> delete_shopping_cart_meals(st, request)
      [] handler = "post_seats_preselect" -> post_seats_preselect(st, request)
      [] handler = "_known_stub" -> _known_stub(st, request)

-----------------------------------------------------------------------------
(* The state machine                                                       *)

Store ==
    [rev |-> global_revision, conversations |-> conversations, orders |-> orders,
     carts |-> shopping_carts, airs |-> airs, profiles |-> profiles]

\* The handler has run: the store is as it left it and the middleware answers.
\* selections are the normalised entries of the request body.
Done(result, request, op, selections) ==
    /\ global_revision' = result.st.rev
    /\ conversations' = result.st.conversations
    /\ orders' = result.st.orders
    /\ shopping_carts' = result.st.carts
    /\ airs' = result.st.airs
    /\ profiles' = result.st.profiles
    /\ response' = _exception_guard(result, request.ctx)
    /\ last' = [op |-> op, query_params |-> request.query_params,
                selections |-> selections, warnings |-> result.helper.warnings,
                raised |-> result.raised, pricing |-> result.pricing]
    /\ UNCHANGED <<mock_debug, _lock, tasks>>

\* state.py line 85: a free RLock
RLock == [owner |-> "", depth |-> 0]

\* The tasks that call the store concurrently.
Tasks == {"t1", "t2"}

\* A task before its first call: pc is the place in the call, local the value
\* _bump_global has loaded, value what it returned, bumps the values the
\* task's bumps returned, results what the task's calls returned and during
\* the tasks that were inside a call when the current one was made.
Idle ==
    [pc |-> "idle", op |-> "", order_id |-> "", local |-> 0, value |-> 0,
     created |-> FALSE, during |-> {}, bumps |-> <<>>, results |-> <<>>]

Init ==
    /\ global_revision = MockStateStore.rev
    /\ conversations = MockStateStore.conversations
    /\ orders = MockStateStore.orders
    /\ shopping_carts = MockStateStore.carts
    /\ airs = MockStateStore.airs
    /\ profiles = MockStateStore.profiles
    /\ mock_debug \in {"", "1"}
    /\ response = ok
    /\ last = [op |-> "none", query_params |-> NoQuery, selections |-> <<>>,
               warnings |-> <<>>, raised |-> FALSE, pricing |-> NoPricing]
    /\ _lock = RLock
    /\ tasks = [t \in Tasks |-> Idle]

\* Requests are served while the revision is below the bound.
Open == global_revision < MaxRevision

\* PUT .../airs/{airId}/seats
SeatsPut(items) ==
    \E body \in SeatBodies(items) :
        /\ Open
        /\ Done(put_or_delete_seats(Store, Request("PUT", AncPath, NoQuery, body)),
                Request("PUT", AncPath, NoQuery, body),
                "SeatsPut", _extract_seat_selections(body))

\* DELETE .../airs/{airId}/seats[?segmentId=]
SeatsDelete ==
    \E query_params \in {[NoQuery EXCEPT !.segmentId = f] : f \in SegmentFilters} :
        /\ Open
        /\ Done(put_or_delete_seats(Store,
                    Request("DELETE", AncPath, query_params, NotAnObject)),
                Request("DELETE", AncPath, query_params, NotAnObject),
                "SeatsDelete", <<>>)

\* PUT .../airs/{airId}/baggage
BagsPut(items) ==
    \E body \in BagBodies(items) :
        /\ Open
        /\ Done(put_select_baggage(Store, Request("PUT", AncPath, NoQuery, body)),
                Request("PUT", AncPath, NoQuery, body),
                "BagsPut", _extract_baggage_selections(body))

\* DELETE .../airs/{airId}/bags[?routeId=]
BagsDelete ==
    \E query_params \in {[NoQuery EXCEPT !.routeId = f] : f \in RouteFilters} :
        /\ Open
        /\ Done(delete_shopping_cart_bags(Store,
                    Request("DELETE", AncPath, query_params, NotAnObject)),
                Request("DELETE", AncPath, query_params, NotAnObject),
                "BagsDelete", <<>>)

\* PUT .../airs/{airId}/meals
MealsPut(items) ==
    \E body \in MealBodies(items) :
        /\ Open
        /\ Done(put_select_meals(Store, Request("PUT", AncPath, NoQuery, body)),
                Request("PUT", AncPath, NoQuery, body),
                "MealsPut", _extract_meal_selections(body))

\* DELETE .../airs/{airId}/meals[?segmentId=]
MealsDelete ==
    \E query_params \in {[NoQuery EXCEPT !.segmentId = f] : f \in SegmentFilters} :
        /\ Open
        /\ Done(delete_shopping_cart_meals(Store,
                    Request("DELETE", AncPath, query_params, NotAnObject)),
                Request("DELETE", AncPath, query_params, NotAnObject),
                "MealsDelete", <<>>)

\* PUT .../optionSets/{optionSetId}/options/{optionId}/solutions/{solutionId}
FlightSelect ==
    /\ Open
    /\ Done(put_select_option_solution(Store,
                Request("PUT", FlightPath, NoQuery, NotAnObject)),
            Request("PUT", FlightPath, NoQuery, NotAnObject), "FlightSelect", <<>>)

\* PUT .../options/deselect
FlightDeselect ==
    /\ Open
    /\ Done(put_deselect_options(Store, Request("PUT", FlightPath, NoQuery, NotAnObject)),
            Request("PUT", FlightPath, NoQuery, NotAnObject), "FlightDeselect", <<>>)

\* POST / DELETE .../selection/confirmation
FlightConfirm ==
    \E method \in {"POST", "DELETE"} :
        /\ Open
        /\ Done(selection_confirmation(Store,
                    Request(method, FlightPath, NoQuery, NotAnObject)),
                Request(method, FlightPath, NoQuery, NotAnObject), "FlightConfirm", <<>>)

\* Store calls are made while the revision is below the bound; a call that
\* creates nothing can always be made.
StoreOpen(st) == global_revision < MaxStoreRevision \/ st.rev = global_revision

\* A call of the store made on its own: the middleware is not involved.
StoreDone(st, op, args, created, warnings) ==
    /\ global_revision' = st.rev
    /\ conversations' = st.conversations
    /\ orders' = st.orders
    /\ shopping_carts' = st.carts
    /\ airs' = st.airs
    /\ profiles' = st.profiles
    /\ last' = [op |-> op, args |-> args, created |-> created, warnings |-> warnings,
                query_params |-> NoQuery, selections |-> <<>>, raised |-> FALSE,
                pricing |-> NoPricing]
    /\ UNCHANGED <<mock_debug, response, _lock, tasks>>

\* The request context of a conversation.
CtxOf(conversation_id) == [Ctx EXCEPT !.conversation_id = conversation_id]

ConversationIds == {"k1", "k2"}
OrderIds == {"o1", "o2"}
CartIds == {"c1"}
AirIds == {"a1", "a2"}
ProfileIds == {"p1"}

\* Path parameters of a request: "" is an absent or blank id.
PathParams ==
    [orderId : {"o1", ""}, shoppingCartId : CartIds \cup {""}, airId : {"a1", ""},
     profileId : ProfileIds \cup {""}]

StoreEnsureConversation ==
    \E k \in ConversationIds :
        /\ StoreOpen(ensure_conversation(Store, CtxOf(k)).st)
        /\ StoreDone(ensure_conversation(Store, CtxOf(k)).st, "ensure_conversation",
                     [id |-> k], ensure_conversation(Store, CtxOf(k)).created, <<>>)

StoreEnsureOrder ==
    \E order_id \in OrderIds, k \in ConversationIds :
        /\ StoreOpen(ensure_order(Store, order_id, CtxOf(k)).st)
        /\ StoreDone(ensure_order(Store, order_id, CtxOf(k)).st, "ensure_order",
                     [id |-> order_id, conversation_id |-> k],
                     ensure_order(Store, order_id, CtxOf(k)).created, <<>>)

StoreEnsureCart ==
    \E order_id \in OrderIds, cart_id \in CartIds :
        /\ StoreOpen(ensure_shopping_cart(Store, order_id, cart_id).st)
        /\ StoreDone(ensure_shopping_cart(Store, order_id, cart_id).st,
                     "ensure_shopping_cart", [id |-> cart_id, order_id |-> order_id],
                     ensure_shopping_cart(Store, order_id, cart_id).created, <<>>)

StoreEnsureAir ==
    \E order_id \in OrderIds, cart_id \in CartIds, air_id \in AirIds :
        /\ StoreOpen(ensure_air(Store, order_id, cart_id, air_id).st)
        /\ StoreDone(ensure_air(Store, order_id, cart_id, air_id).st, "ensure_air",
                     [id |-> air_id, order_id |-> order_id, shopping_cart_id |-> cart_id],
                     ensure_air(Store, order_id, cart_id, air_id).created, <<>>)

StoreEnsureProfile ==
    \E profile_id \in ProfileIds :
        /\ StoreOpen(ensure_profile(Store, profile_id).st)
        /\ StoreDone(ensure_profile(Store, profile_id).st, "ensure_profile",
                     [id |-> profile_id], ensure_profile(Store, profile_id).created, <<>>)

StoreTouch ==
    /\ StoreOpen(touch(Store))
    /\ StoreDone(touch(Store), "touch", [id |-> ""], FALSE, <<>>)

StoreEnsureFromRequest ==
    \E path_params \in PathParams, k \in {"k1"} :
        /\ StoreOpen(ensure_from_request(Store, CtxOf(k), path_params).st)
        /\ StoreDone(ensure_from_request(Store, CtxOf(k), path_params).st,
                     "ensure_from_request",
                     [path_params |-> path_params, conversation_id |-> k], FALSE,
                     ensure_from_request(Store, CtxOf(k), path_params).warnings)

\* Request paths that name two orders, two carts and two airs.
SharedPaths ==
    [orderId : {"o1", "o2"}, shoppingCartId : {"c1", "c2"}, airId : {"a1", "a2", ""},
     profileId : {""}]

\* ensure_from_request for the path of a request, as every handler calls it.
StoreEnsurePaths ==
    \E path_params \in SharedPaths :
        /\ Open
        /\ StoreDone(ensure_from_request(Store, Ctx, path_params).st,
                     "ensure_from_request",
                     [path_params |-> path_params, conversation_id |-> Ctx.conversation_id],
                     FALSE, ensure_from_request(Store, Ctx, path_params).warnings)

NextPaths == StoreEnsurePaths

\* Calls of the store only, on several ids of each kind.
NextStore ==
    \/ StoreEnsureConversation \/ StoreEnsureOrder \/ StoreEnsureCart \/ StoreEnsureAir
    \/ StoreEnsureProfile \/ StoreTouch \/ StoreEnsureFromRequest

(***************************************************************************)
(* Tasks calling the store concurrently.  A call is a sequence of steps:   *)
(* the task enters "with self._lock", runs the body one read or write at a *)
(* time and leaves the block.                                              *)
(***************************************************************************)

\* The tasks ensure the order of the requests.
TaskOrders == {AncPath.orderId}

\* The calls a task makes: touch() and ensure_order(order_id, ctx).
StoreCalls ==
    {[op |-> "touch", order_id |-> ""]}
        \cup {[op |-> "ensure_order", order_id |-> o] : o \in TaskOrders}

\* The tasks that are inside a call.
InCall == {t \in Tasks : tasks[t].pc # "idle"}

\* A lock that any task enters at once.
LockOpen(lock, t) == TRUE

\* RLock.acquire returns when the lock is free or the task already owns it
LockFree(lock, t) == lock.owner \in {"", t}

acquire(lock, t) == [owner |-> t, depth |-> lock.depth + 1]

\* leaving the with block: the lock is free when the outermost block is left
release(lock) == IF lock.depth <= 1 THEN RLock ELSE [lock EXCEPT !.depth = @ - 1]

\* What a task does next leaves the store as it is.
TaskOnly == UNCHANGED <<conversations, shopping_carts, airs, profiles,
                        mock_debug, response, last>>

\* A task makes its next call.
TaskCall(t) ==
    /\ tasks[t].pc = "idle"
    /\ Len(tasks[t].results) < MaxCalls
    /\ \E call \in StoreCalls :
           tasks' = [tasks EXCEPT ![t] =
                        [@ EXCEPT !.pc = "acquire", !.op = call.op,
                                  !.order_id = call.order_id,
                                  !.during = InCall \ {t}]]
    /\ UNCHANGED <<global_revision, orders, _lock>>
    /\ TaskOnly

\* state.py lines 105, 127: with self._lock
Acquire(t) ==
    /\ tasks[t].pc = "acquire"
    /\ LockFree(_lock, t)
    /\ _lock' = acquire(_lock, t)
    /\ tasks' = [tasks EXCEPT ![t].pc = IF tasks[t].op = "touch" THEN "load" ELSE "lookup"]
    /\ UNCHANGED <<global_revision, orders>>
    /\ TaskOnly

\* state.py lines 128-131: existing = self.orders.get(order_id)
Lookup(t) ==
    /\ tasks[t].pc = "lookup"
    /\ tasks' = [tasks EXCEPT ![t] =
                    IF tasks[t].order_id \in DOMAIN orders
                    THEN [@ EXCEPT !.pc = "release", !.created = FALSE,
                                   !.value = orders[tasks[t].order_id].revision]
                    ELSE [@ EXCEPT !.pc = "load"]]
    /\ UNCHANGED <<global_revision, orders, _lock>>
    /\ TaskOnly

\* state.py line 95: self._global_revision += 1 reads the counter,
LoadRevision(t) ==
    /\ tasks[t].pc = "load"
    /\ tasks' = [tasks EXCEPT ![t] = [@ EXCEPT !.pc = "add", !.local = global_revision]]
    /\ UNCHANGED <<global_revision, orders, _lock>>
    /\ TaskOnly

\* adds one and writes it back;
AddRevision(t) ==
    /\ tasks[t].pc = "add"
    /\ global_revision' = tasks[t].local + 1
    /\ tasks' = [tasks EXCEPT ![t].pc = "return"]
    /\ UNCHANGED <<orders, _lock>>
    /\ TaskOnly

\* state.py line 96: return self._global_revision
ReturnRevision(t) ==
    /\ tasks[t].pc = "return"
    /\ tasks' = [tasks EXCEPT ![t] =
                    [@ EXCEPT !.pc = IF tasks[t].op = "touch" THEN "release" ELSE "store",
                              !.value = global_revision,
                              !.bumps = Append(@, global_revision)]]
    /\ UNCHANGED <<global_revision, orders, _lock>>
    /\ TaskOnly

\* state.py lines 133-136: the order, stamped with the bump, is stored
PutOrder(t) ==
    /\ tasks[t].pc = "store"
    /\ orders' = (tasks[t].order_id :>
                      [OrderState(tasks[t].order_id, Ctx.conversation_id)
                          EXCEPT !.revision = tasks[t].value]) @@ orders
    /\ tasks' = [tasks EXCEPT ![t] = [@ EXCEPT !.pc = "release", !.created = TRUE]]
    /\ UNCHANGED <<global_revision, _lock>>
    /\ TaskOnly

\* The with block is left and the call returns.
Release(t) ==
    /\ tasks[t].pc = "release"
    /\ _lock' = release(_lock)
    /\ tasks' = [tasks EXCEPT ![t] =
                    [Idle EXCEPT !.bumps = tasks[t].bumps,
                                 !.results = Append(tasks[t].results,
                                     [op |-> tasks[t].op, order_id |-> tasks[t].order_id,
                                      created |-> tasks[t].created, value |-> tasks[t].value,
                                      during |-> tasks[t].during])]]
    /\ UNCHANGED <<global_revision, orders>>
    /\ TaskOnly

NextLock ==
    \E t \in Tasks :
        \/ TaskCall(t) \/ Acquire(t) \/ Lookup(t) \/ LoadRevision(t)
        \/ AddRevision(t) \/ ReturnRevision(t) \/ PutOrder(t) \/ Release(t)

\* headers.py lines 62-75: a missing header takes its default with a warning
Missing(name, value, default) ==
    IF value # "" THEN <<>>
    ELSE <<Warning("MISSING_HEADER", [header |-> name, default |-> default])>>

\* headers is [application, flow, locale, conversation], "" a missing header;
\* the requests of the model carry their conversation.
build_request_context(headers) ==
    [conversation_id |-> headers.conversation,
     application |-> Or(headers.application, "IBE"),
     flow |-> Or(headers.flow, "revenue"),
     locale |-> Or(headers.locale, "en"),
     warnings |-> Missing("X-Application", headers.application, "IBE")
                  \o Missing("X-Flow", headers.flow, "revenue")
                  \o Missing("X-Locale", headers.locale, "en")]

\* The headers of a request: all four, or all but X-Locale.
HeaderSets ==
    {[application |-> "IBE", flow |-> "BOOKING", locale |-> locale, conversation |-> "k1"] :
        locale \in {"en-US", ""}}

RequestFrom(headers, method, path_params, query_params, body) ==
    [Request(method, path_params, query_params, body)
        EXCEPT !.ctx = build_request_context(headers)]

\* The known routes the model serves ([path, methods] of KNOWN_ROUTES) and
\* the path parameters of a request to each.
Route(path, methods, path_params) ==
    [path |-> path, methods |-> methods, path_params |-> path_params]

BookingPath == [AncPath EXCEPT !.airId = ""]

NoPath == [orderId |-> "", shoppingCartId |-> "", airId |-> "", profileId |-> ""]

AncillaryRoutes ==
    {Route(AirRoutes \o "/seats", {"DELETE", "PUT"}, AncPath),
     Route(AirRoutes \o "/baggage", {"PUT"}, AncPath),
     Route(AirRoutes \o "/ancillaries/bags", {"PUT"}, AncPath),
     Route(AirRoutes \o "/bags", {"DELETE"}, AncPath),
     Route(AirRoutes \o "/meals", {"DELETE", "PUT"}, AncPath),
     Route(AirRoutes \o "/ancillaries/meals", {"PUT"}, AncPath),
     Route(CartRoutes \o "/bookings", {"POST"}, BookingPath)}

StubRoutes ==
    {Route("/api/v1/flights/calendar/search", {"POST"}, NoPath),
     Route(CartRoutes \o "/insurances", {"DELETE", "GET", "PUT"}, BookingPath),
     Route(AirRoutes \o "/lounges", {"DELETE", "PUT"}, AncPath)}

SearchRoute == Route("/api/v1/flights/search", {"POST"}, NoPath)

SelectionRoutes ==
    {Route(CartRoutes \o SelectionRoute, {"PUT"}, FlightPath),
     Route(CartRoutes \o "/flights/search/deselect/options", {"PUT"}, FlightPath),
     Route(CartRoutes \o "/flights/search/selection/confirmation", {"DELETE", "POST"},
           FlightPath)}

\* The body of a search: searchParams with "" for an absent value.
SearchBodies ==
    {[json |-> "object",
      searchParams |-> [tripType |-> "", currency |-> "", routes |-> routes]] :
        routes \in {<<>>, <<[origin |-> "ROM", destination |-> "MIL",
                             departureDate |-> "2026-03-01"]>>}}

\* The bodies of the requests to a route: seat lists on the seat route.
BodiesOf(route, method) ==
    IF route.path = AirRoutes \o "/seats" /\ method = "PUT"
    THEN SeatBodies(CartSeatItems)
    ELSE {NotAnObject}

\* The handler the route was registered with has run and the middleware answers.
Served(result, request, route) ==
    /\ global_revision' = result.st.rev
    /\ conversations' = result.st.conversations
    /\ orders' = result.st.orders
    /\ shopping_carts' = result.st.carts
    /\ airs' = result.st.airs
    /\ profiles' = result.st.profiles
    /\ response' = _exception_guard(result, request.ctx)
    /\ last' = [op |-> "Serve", path |-> route.path, method |-> request.method,
                handler |-> register_known_routes(route), body |-> request.body,
                path_params |-> request.path_params,
                before |-> Store, query_params |-> request.query_params,
                selections |-> <<>>, warnings |-> result.helper.warnings,
                raised |-> result.raised, pricing |-> result.pricing]
    /\ UNCHANGED <<mock_debug, _lock, tasks>>

\* A request to an ancillary route.
ServeAncillary ==
    \E route \in AncillaryRoutes, headers \in HeaderSets :
        \E method \in route.methods :
            \E body \in BodiesOf(route, method) :
                /\ Open
                /\ Served(Call(register_known_routes(route), Store,
                               RequestFrom(headers, method, route.path_params, NoQuery,
                                           body)),
                          RequestFrom(headers, method, route.path_params, NoQuery, body),
                          route)

\* A request to a route that has no stateful handler.
ServeStub ==
    \E route \in StubRoutes, headers \in HeaderSets :
        \E method \in route.methods :
            /\ Open
            /\ Served(Call(register_known_routes(route), Store,
                           RequestFrom(headers, method, route.path_params, NoQuery,
                                       NotAnObject)),
                      RequestFrom(headers, method, route.path_params, NoQuery, NotAnObject),
                      route)

\* A request to a flight-selection route.
ServeSelection ==
    \E route \in SelectionRoutes, headers \in HeaderSets :
        \E method \in route.methods :
            /\ Open
            /\ Served(Call(register_known_routes(route), Store,
                           RequestFrom(headers, method, route.path_params, NoQuery,
                                       NotAnObject)),
                      RequestFrom(headers, method, route.path_params, NoQuery, NotAnObject),
                      route)

\* POST /api/v1/flights/search
ServeSearch ==
    \E body \in SearchBodies :
        /\ Open
        /\ Served(Call(register_known_routes(SearchRoute), Store,
                       Request("POST", NoPath, NoQuery, body)),
                  Request("POST", NoPath, NoQuery, body), SearchRoute)

\* Requests dispatched through the registered routes.
NextRoutes == ServeAncillary \/ ServeStub \/ ServeSelection \/ ServeSearch

(***************************************************************************)
(* The flight total of a stored search, by both implementations.           *)
(***************************************************************************)

Price(amount, currency) == [amount |-> amount, currency |-> currency, preselected |-> FALSE]

\* {"currency": ...}: a price without an amount
Unpriced(currency) == [currency |-> currency, preselected |-> FALSE]

Option(id, cheapest, solutions) ==
    [id |-> id, cheapestSolutionId |-> cheapest, userSelected |-> FALSE,
     solutions |-> solutions]

\* The option lists of the option sets: the prices are in two currencies, one
\* price has no currency, one no amount, and one option names no cheapest
\* solution.
OptionLists ==
    { <<>>,
      <<Option("op1", "s1", <<[k |-> "s1", v |-> Price(100, "EUR")],
                              [k |-> "s2", v |-> Price(140, "EUR")]>>),
        Option("op2", "", <<[k |-> "s1", v |-> Price(80, "GBP")]>>)>>,
      <<Option("op1", "s1", <<[k |-> "s1", v |-> Price(60, "")],
                              [k |-> "s2", v |-> Unpriced("EUR")]>>),
        Option("op2", "s2", <<[k |-> "s1", v |-> Price(70, "EUR")]>>)>>,
      <<Option("op1", "s2", <<[k |-> "s1", v |-> Price(90, "USD")],
                              [k |-> "s2", v |-> Price(50, "")]>>),
        Option("op1", "s1", <<[k |-> "s1", v |-> Price(10, "GBP")]>>)>> }

OptionSets ==
    { [id |-> "os1", selection |-> [optionId |-> so, solutionId |-> ss],
       optionId |-> o, solutionId |-> sol, cheapestOptionId |-> "op1", options |-> opts] :
          so \in {"", "op1", "op3"}, ss \in {"", "s2"}, o \in {"", "op2"},
          sol \in {"", "s1"}, opts \in OptionLists }

\* The stored searches: up to MaxOptionSets option sets.
Searches ==
    { [present |-> TRUE, optionSets |-> sets] : sets \in SeqsUpTo(OptionSets, MaxOptionSets) }

\* Both implementations are applied to one stored search.
ComputeTotals ==
    \E search_obj \in Searches :
        /\ last.op = "none"
        /\ last' = [op |-> "flights_total", search_obj |-> search_obj,
                    seats |-> _compute_flights_total(search_obj),
                    selection |-> _compute_total(search_obj)]
        /\ UNCHANGED <<global_revision, conversations, orders, shopping_carts, airs,
                       profiles, mock_debug, response, _lock, tasks>>

\* The seats and gaps of the generated seat map: a cabin, one of its rows and
\* one of the columns of the row.
SeatMapPlaces ==
    { [cabin_type |-> cabin_type, row_number |-> r, col |-> col] :
        cabin_type \in CabinTypes, r \in SeatMapRows,
        col \in {"A", "B", "C", "D", "E", "F", "G", "H", "J", "K", "_"} }

InCabin(p) ==
    /\ p.row_number \in _cabin(p.cabin_type).row_range
    /\ \E i \in 1..Len(_iter_columns_with_aisles(_cabin(p.cabin_type).columns)) :
          _iter_columns_with_aisles(_cabin(p.cabin_type).columns)[i] = p.col

\* One place of the seat map is built, and the fee of a seat selection for the
\* same row and column is computed.
ShowSeat ==
    \E p \in SeatMapPlaces, occupied \in BOOLEAN :
        /\ last.op = "none"
        /\ InCabin(p)
        /\ last' = [op |-> "seat_map", cabin_type |-> p.cabin_type,
                    row_number |-> p.row_number, col |-> p.col,
                    place |-> RowPlace(p.row_number, p.col, "USD", occupied,
                                       _cabin(p.cabin_type).xl_rows,
                                       _cabin(p.cabin_type).exit_rows),
                    fee |-> _seat_price(ToString(p.row_number), p.col)]
        /\ UNCHANGED <<global_revision, conversations, orders, shopping_carts, airs,
                       profiles, mock_debug, response, _lock, tasks>>

NextSeatMap == ShowSeat

\* The routes registered with post_seats_preselect.
PreselectRoutes ==
    {Route(AirRoutes \o "/seats/preselect", {"POST"}, AncPath),
     Route(AirRoutes \o "/preseat/suggestion", {"POST"}, AncPath)}

\* A request to a seat preselection route.
ServePreselect ==
    \E route \in PreselectRoutes, headers \in HeaderSets :
        \E method \in route.methods :
            \E body \in SeatBodies(SeatItems) \cup {NotAnObject} :
                /\ Open
                /\ Served(Call(register_known_routes(route), Store,
                               RequestFrom(headers, method, route.path_params, NoQuery,
                                           body)),
                          RequestFrom(headers, method, route.path_params, NoQuery, body),
                          route)

NextPreselect == ServePreselect

NextTotals == ComputeTotals

\* Seat requests only, with every kind of seat entry.
NextSeats == SeatsPut(SeatItems) \/ SeatsDelete

\* Baggage requests only, with every kind of baggage entry.
NextBags == BagsPut(BagItems) \/ BagsDelete

\* Meal requests only, with one more passenger.
AllMealItems == MealItems \cup {MealObj("P2", "S1", "DRINK_WATER")}

NextMeals == MealsPut(AllMealItems) \/ MealsDelete

\* All handlers on one cart.
Next ==
    \/ SeatsPut(CartSeatItems) \/ SeatsDelete
    \/ BagsPut(CartBagItems) \/ BagsDelete
    \/ MealsPut(MealItems) \/ MealsDelete
    \/ FlightSelect \/ FlightDeselect \/ FlightConfirm

SpecSeatMap == Init /\ [][NextSeatMap]_vars

SpecPreselect == Init /\ [][NextPreselect]_vars

SpecTotals == Init /\ [][NextTotals]_vars

SpecSeats == Init /\ [][NextSeats]_vars

SpecBags == Init /\ [][NextBags]_vars

SpecMeals == Init /\ [][NextMeals]_vars

SpecPaths == Init /\ [][NextPaths]_vars

SpecStore == Init /\ [][NextStore]_vars

SpecRoutes == Init /\ [][NextRoutes]_vars

\* The scheduler runs a task that can take a step.
SpecLock == Init /\ [][NextLock]_vars /\ WF_vars(NextLock)

Spec == Init /\ [][Next]_vars

-----------------------------------------------------------------------------
(* Properties                                                              *)

\* What the air of the ancillary requests stores under an ancillaries key.
Stored(key) ==
    IF AncPath.airId \in DOMAIN airs
    THEN AncList(airs[AncPath.airId].ancillaries, key)
    ELSE <<>>

\* Warnings with a given code.
Coded(warnings, code) == {i \in 1..Len(warnings) : warnings[i].code = code}

AncillaryOps ==
    {"SeatsPut", "SeatsDelete", "BagsPut", "BagsDelete", "MealsPut", "MealsDelete"}

\* The price of the flight options selected in the cart's stored search.
FlightsPart(cart_state) ==
    IF HasAttr(cart_state, "flights_search") /\ cart_state.flights_search.present
    THEN _compute_flights_total(cart_state.flights_search).total
    ELSE 0

AncillariesPart ==
    SumSeq([i \in 1..Len(Stored("seatSelections")) |->
               _seat_price(Stored("seatSelections")[i].rowNumber,
                           Stored("seatSelections")[i].seatNumber)])
    + SumSeq([i \in 1..Len(Stored("baggageItems")) |-> Stored("baggageItems")[i].amount])
    + SumSeq([i \in 1..Len(Stored("mealItems")) |-> Stored("mealItems")[i].amount])

C2_RepriceReturnsTotal ==
    last.op \in AncillaryOps =>
        /\ ~last.raised
        /\ last.pricing.set
        /\ last.pricing = shopping_carts[AncPath.shoppingCartId].pricing
        /\ last.pricing.total =
              FlightsPart(shopping_carts[AncPath.shoppingCartId]) + AncillariesPart

\* The stored seat selection of a passenger on a segment, as a set (empty: none).
SeatsOf(pid, sid) ==
    {s \in Range(Stored("seatSelections")) : s.passengerId = pid /\ s.segmentId = sid}

Seat(pid, sid, rn, sn) ==
    [passengerId |-> pid, segmentId |-> sid, rowNumber |-> rn, seatNumber |-> sn]

\* the request was a seat PUT of the one entry (pid, sid, rn, sn in any case)
PutOne(l, pid, sid, rn, sn) ==
    /\ l.op = "SeatsPut"
    /\ Len(l.selections) = 1
    /\ [l.selections[1] EXCEPT !.seatNumber = upper(@)] = Seat(pid, sid, rn, sn)

\* C3: if P1 holds seat (S1, 12A) and a seat PUT assigns (S1, 12A) to P2, then
\* afterwards P1 has no stored selection for S1, P2's stored selection for S1 is
\* 12A, and the response carries a SEAT_REASSIGNED warning from P1 to P2.
C3_ConflictEviction ==
    [][(/\ SeatsOf("P1", "S1") = {Seat("P1", "S1", "12", "A")}
        /\ PutOne(last', "P2", "S1", "12", "A"))
       => /\ SeatsOf("P1", "S1")' = {}
          /\ SeatsOf("P2", "S1")' = {Seat("P2", "S1", "12", "A")}
          /\ \E i \in Coded(response'.warnings, "SEAT_REASSIGNED") :
                /\ response'.warnings[i].details.fromPassengerId = "P1"
                /\ response'.warnings[i].details.toPassengerId = "P2"]_vars

\* C4: no two stored seat selections of the air have the same
\* (segmentId, rowNumber+seatNumber).
C4_OneHolderPerSeat ==
    \A i, j \in 1..Len(Stored("seatSelections")) :
        (/\ Stored("seatSelections")[i].segmentId = Stored("seatSelections")[j].segmentId
         /\ SeatKey(Stored("seatSelections")[i]) = SeatKey(Stored("seatSelections")[j]))
        => i = j

\* a seat PUT named one seat for two passengers and one of them holds it
C4_Witness ==
    /\ last.op = "SeatsPut"
    /\ Len(last.selections) = 2
    /\ last.selections[1].passengerId = "P1"
    /\ last.selections[2].passengerId = "P2"
    /\ last.selections[1].segmentId = last.selections[2].segmentId
    /\ SeatKey(last.selections[1]) = SeatKey(last.selections[2])
    /\ SeatsOf("P2", "S1") = {Seat("P2", "S1", "12", "A")}
    /\ SeatsOf("P1", "S1") = {}

\* A seat entry the handler accepts.
ValidSeat(s) ==
    s.passengerId # "" /\ s.segmentId # "" /\ s.rowNumber # "" /\ upper(s.seatNumber) # ""

\* The positions of the valid entries of a payload for one (passengerId, segmentId).
Submitted(selections, pid, sid) ==
    {i \in 1..Len(selections) :
        /\ ValidSeat(selections[i])
        /\ selections[i].passengerId = pid
        /\ selections[i].segmentId = sid}

\* the latest of them
Latest(selections, pid, sid) ==
    selections[CHOOSE i \in Submitted(selections, pid, sid) :
                  \A j \in Submitted(selections, pid, sid) : j <= i]

\* C5: after a seat PUT there is at most one stored seat selection per
\* (passengerId, segmentId); it is the latest valid entry the payload has for
\* that key and, if the payload has none, the selection stored before the PUT
\* (so, by induction, the most recent valid selection submitted for the key).
C5_ReplaceByKey ==
    [][last'.op = "SeatsPut" =>
        \A pid \in {"P1", "P2"}, sid \in {"S1", "S2"} :
            /\ Cardinality({i \in 1..Len(Stored("seatSelections")') :
                   /\ Stored("seatSelections")'[i].passengerId = pid
                   /\ Stored("seatSelections")'[i].segmentId = sid}) <= 1
            /\ \A s \in SeatsOf(pid, sid)' :
                  IF Submitted(last'.selections, pid, sid) # {}
                  THEN s = [Latest(last'.selections, pid, sid) EXCEPT
                               !.seatNumber = upper(@)]
                  ELSE s \in SeatsOf(pid, sid)]_vars

\* a PUT selected (P1, S1, 12A) and then (P1, S1, 14C): one selection, at 14C
C5_Witness ==
    /\ last.op = "SeatsPut"
    /\ last.selections = <<Seat("P1", "S1", "12", "A"), Seat("P1", "S1", "14", "C")>>
    /\ Stored("seatSelections") = <<Seat("P1", "S1", "14", "C")>>

\* The (passengerId, routeId) keys of a list of baggage entries.
BagKeys(entries) == {<<e.passengerId, e.routeId>> : e \in Range(entries)}

\* C6: a baggage PUT merges by (passengerId, routeId): the stored baggage
\* selections and priced items whose key does not occur in the incoming payload
\* are still stored after the PUT.
C6_BaggageMerge ==
    [][last'.op = "BagsPut" =>
        /\ \A e \in Range(Stored("baggageSelections")) :
              <<e.passengerId, e.routeId>> \notin BagKeys(last'.selections)
              => e \in Range(Stored("baggageSelections")')
        /\ \A it \in Range(Stored("baggageItems")) :
              <<it.passengerId, it.routeId>> \notin BagKeys(last'.selections)
              => it \in Range(Stored("baggageItems")')]_vars

\* The stored baggage items of one (passengerId, routeId).
ItemsOf(key) ==
    {i \in 1..Len(Stored("baggageItems")) :
        <<Stored("baggageItems")[i].passengerId, Stored("baggageItems")[i].routeId>> = key}

\* C7: the air stores at most 2 baggage items per (passengerId, routeId), at
\* most one of them priced at the discounted rate.
C7_BaggageCap ==
    \A key \in BagKeys(Stored("baggageItems")) :
        /\ Cardinality(ItemsOf(key)) <= 2
        /\ Cardinality({i \in ItemsOf(key) : Stored("baggageItems")[i].discounted}) <= 1

\* The entries of a baggage payload that name a passenger.
Named(selections) == {i \in 1..Len(selections) : selections[i].passengerId # ""}

\* The entries before entry i that name a passenger, and the items they keep.
KeptBefore(selections, i) ==
    SumSeq([j \in 1..(i - 1) |->
               IF selections[j].passengerId = "" THEN 0
               ELSE IF Len(selections[j].baggageIds) > 2 THEN 2
               ELSE Len(selections[j].baggageIds)])

\* C8: after a baggage PUT, an entry with more than 2 bag ids has exactly its
\* first 2 ids stored as priced items, the first priced 15 and below the second
\* priced 30, and _apply_baggage emitted one BAG_LIMIT_APPLIED warning for it; an
\* entry with at most 2 ids has all its ids stored and no such warning.
C8_BaggageLimit ==
    last.op = "BagsPut" =>
        /\ Len(Stored("baggageItems")) = KeptBefore(last.selections, Len(last.selections) + 1)
        /\ \A i \in Named(last.selections) :
              /\ \A k \in 1..Len(last.selections[i].baggageIds) :
                    k <= 2 =>
                       /\ Stored("baggageItems")[KeptBefore(last.selections, i) + k].baggageId
                             = last.selections[i].baggageIds[k]
                       /\ Stored("baggageItems")[KeptBefore(last.selections, i) + k].amount
                             = (IF k = 1 THEN 15 ELSE 30)
              /\ Len(last.selections[i].baggageIds) >= 2 =>
                    Stored("baggageItems")[KeptBefore(last.selections, i) + 1].amount
                       < Stored("baggageItems")[KeptBefore(last.selections, i) + 2].amount
        /\ Cardinality(Coded(last.warnings, "BAG_LIMIT_APPLIED"))
              = Cardinality({i \in Named(last.selections) :
                                Len(last.selections[i].baggageIds) > 2})
        /\ \A w \in Coded(last.warnings, "BAG_LIMIT_APPLIED") :
              \E i \in Named(last.selections) :
                 /\ Len(last.selections[i].baggageIds) > 2
                 /\ last.warnings[w].details.passengerId = last.selections[i].passengerId
                 /\ last.warnings[w].details.requested = Len(last.selections[i].baggageIds)

\* a PUT of one entry with 3 bag ids: 2 items stored, one warning
C8_Witness ==
    /\ last.op = "BagsPut"
    /\ Len(last.selections) = 1
    /\ last.selections[1].passengerId = "P1"
    /\ Len(last.selections[1].baggageIds) = 3
    /\ Len(Stored("baggageItems")) = 2
    /\ Stored("baggageItems")[1].amount < Stored("baggageItems")[2].amount
    /\ Cardinality(Coded(last.warnings, "BAG_LIMIT_APPLIED")) = 1

\* The stored list, the route/segment field and the warning of each PUT.
PutCategory(op) ==
    CASE op = "SeatsPut" ->
            [stored |-> "seatSelections", id |-> "segmentId", code |-> "SEAT_SELECTION_INVALID"]
      [] op = "BagsPut" ->
            [stored |-> "baggageSelections", id |-> "routeId", code |-> "BAG_SELECTION_INVALID"]
      [] op = "MealsPut" ->
            [stored |-> "mealSelections", id |-> "segmentId", code |-> "MEAL_SELECTION_INVALID"]

\* An entry without a passenger id or without a segment/route id.
Blank(e, id) == e.passengerId = "" \/ e[id] = ""

\* The positions of the entries of a payload that have both ids.
Filled(selections, id) == {i \in 1..Len(selections) : ~Blank(selections[i], id)}

\* C9: after a seat, baggage or meal PUT, the handler's helper reported one
\* *_SELECTION_INVALID warning per payload entry without a passenger id or
\* without a segment/route id, no stored selection of the category lacks one
\* of the two ids, and the last entry of the payload that has both ids is
\* stored under them.
C9_InvalidDropped ==
    last.op \in {"SeatsPut", "BagsPut", "MealsPut"} =>
        /\ Cardinality(Coded(last.warnings, PutCategory(last.op).code))
              = Len(last.selections)
                - Cardinality(Filled(last.selections, PutCategory(last.op).id))
        /\ \A e \in Range(Stored(PutCategory(last.op).stored)) :
              ~Blank(e, PutCategory(last.op).id)
        /\ \A i \in Filled(last.selections, PutCategory(last.op).id) :
              (\A j \in Filled(last.selections, PutCategory(last.op).id) : j <= i)
              => \E e \in Range(Stored(PutCategory(last.op).stored)) :
                    /\ e.passengerId = last.selections[i].passengerId
                    /\ e[PutCategory(last.op).id]
                          = last.selections[i][PutCategory(last.op).id]

\* What a DELETE with a filter keeps of a stored list; all of it goes without one.
Outside(entries, id, filter) ==
    LET Other(e) == e[id] # filter
    IN  IF filter = "" THEN <<>> ELSE SelectSeq(entries, Other)

\* C10: a DELETE on seats, bags or meals with a route/segment filter removes
\* exactly the stored selections of that category whose route/segment equals
\* the filter and keeps the others, in place; without a filter the category's
\* stored selections become empty.
C10_DeleteByFilter ==
    [][/\ last'.op = "SeatsDelete" =>
             Stored("seatSelections")'
                = Outside(Stored("seatSelections"), "segmentId", last'.query_params.segmentId)
       /\ last'.op = "BagsDelete" =>
             /\ Stored("baggageSelections")'
                   = Outside(Stored("baggageSelections"), "routeId",
                             last'.query_params.routeId)
             /\ Stored("baggageItems")'
                   = Outside(Stored("baggageItems"), "routeId", last'.query_params.routeId)
       /\ last'.op = "MealsDelete" =>
             Stored("mealSelections")'
                = Outside(Stored("mealSelections"), "segmentId",
                          last'.query_params.segmentId)]_vars

\* a seat DELETE for S1 that left a selection on S2 behind
C10_Witness ==
    /\ last.op = "SeatsDelete"
    /\ last.query_params.segmentId = "S1"
    /\ Stored("seatSelections") = <<Seat("P1", "S2", "12", "A")>>

\* The (passengerId, segmentId) keys of a list of seat or meal entries.
PsgSegKeys(entries) == {<<e.passengerId, e.segmentId>> : e \in Range(entries)}

\* An incoming seat entry that is applied claims the physical seat of s.
Claimed(selections, s) ==
    \E e \in Range(selections) :
        /\ ValidSeat(e)
        /\ e.segmentId = s.segmentId
        /\ SeatKey(e) = SeatKey(s)

\* The stored meal lists a merge can meet: valid entries, one per key.
StoredMealLists ==
    {l \in SeqsUpTo({NormalisedMeal(m) : m \in {MealObj("P1", "S1", "MEAL_GOURMET"),
                                                MealObj("P2", "S1", "MEAL_VEG"),
                                                MealObj("P1", "S2", "DRINK_TEA")}},
                    MaxPayloadLen) :
        Cardinality(PsgSegKeys(l)) = Len(l)}

\* _merge_selections keeps every existing entry whose key no incoming entry has.
MergeKeepsOthers ==
    \A existing \in StoredMealLists :
        \A body \in MealBodies(MealItems \cup {MealObj("P2", "S1", "MEAL_GOURMET")}) :
            \A e \in Range(existing) :
                <<e.passengerId, e.segmentId>>
                    \notin PsgSegKeys(_extract_meal_selections(body))
                => e \in Range(_merge_selections(existing,
                                                 _extract_meal_selections(body)).merged)

\* C11: a seat or meal PUT leaves untouched every stored selection whose
\* (passengerId, segmentId) key does not occur in the incoming payload, except
\* a seat selection whose physical seat an incoming entry claims; the meal
\* merge keeps every existing entry whose key is not incoming.
C11_PartialUpdate ==
    [][/\ last'.op = "SeatsPut" =>
             \A s \in Range(Stored("seatSelections")) :
                 <<s.passengerId, s.segmentId>> \notin PsgSegKeys(last'.selections)
                 => \/ s \in Range(Stored("seatSelections")')
                    \/ Claimed(last'.selections, s)
       /\ last'.op = "MealsPut" =>
             \A m \in Range(Stored("mealSelections")) :
                 <<m.passengerId, m.segmentId>> \notin PsgSegKeys(last'.selections)
                 => m \in Range(Stored("mealSelections")')
       /\ MergeKeepsOthers]_vars

\* a seat PUT for (P2, S1) on an air that stored (P1, S2): both are stored
C11_Witness ==
    /\ last.op = "SeatsPut"
    /\ last.selections = <<Seat("P2", "S1", "12", "a")>>
    /\ Stored("seatSelections") = <<Seat("P1", "S2", "12", "A"), Seat("P2", "S1", "12", "A")>>

\* The calls that ensure one entity, and the map each of them fills.
EnsureOps ==
    {"ensure_conversation", "ensure_order", "ensure_shopping_cart", "ensure_air",
     "ensure_profile"}

MapOf(st, op) ==
    CASE op = "ensure_conversation" -> st.conversations
      [] op = "ensure_order" -> st.orders
      [] op = "ensure_shopping_cart" -> st.carts
      [] op = "ensure_air" -> st.airs
      [] op = "ensure_profile" -> st.profiles

\* What the same call returns when it is made again, with any owner ids.
Again(st, op, id) ==
    CASE op = "ensure_conversation" -> {ensure_conversation(st, CtxOf(id))}
      [] op = "ensure_order" -> {ensure_order(st, id, CtxOf(k)) : k \in ConversationIds}
      [] op = "ensure_shopping_cart" ->
            {ensure_shopping_cart(st, order_id, id) : order_id \in OrderIds}
      [] op = "ensure_air" ->
            {ensure_air(st, order_id, cart_id, id) :
                order_id \in OrderIds, cart_id \in CartIds \cup {"c2"}}
      [] op = "ensure_profile" -> {ensure_profile(st, id)}

\* C12: for each entity kind, ensure_X on an id that has no entity returns
\* created = TRUE, adds the one entity and bumps the global revision by exactly
\* one; on an id that has an entity it returns created = FALSE and changes
\* nothing in the store (timestamps are not modelled); and the same call made
\* again, whatever owner ids it passes, returns created = FALSE and leaves the
\* store, the entity included, as the first call left it.
C12_EnsureIdempotent ==
    [][last'.op \in EnsureOps =>
        /\ last'.created = (last'.args.id \notin DOMAIN MapOf(Store, last'.op))
        /\ last'.created =>
              /\ global_revision' = global_revision + 1
              /\ DOMAIN MapOf(Store', last'.op)
                    = DOMAIN MapOf(Store, last'.op) \cup {last'.args.id}
        /\ ~last'.created => Store' = Store
        /\ \A r \in Again(Store', last'.op, last'.args.id) :
              r = [st |-> Store', created |-> FALSE]]_vars

\* ensure_order("o1") was called for conversation k1 and again for k2
C12_Witness ==
    /\ last.op = "ensure_order"
    /\ last.args = [id |-> "o1", conversation_id |-> "k2"]
    /\ ~last.created
    /\ orders["o1"].conversation_id = "k1"
    /\ orders["o1"].revision = global_revision

\* The revisions of the entities of a map never decrease over a step and are
\* at most the global revision after it.
RevisionsGrow(before, after, global_after) ==
    \A id \in DOMAIN before :
        /\ id \in DOMAIN after
        /\ after[id].revision >= before[id].revision
        /\ after[id].revision <= global_after

\* C13: over every step of every handler the global revision counter does not
\* decrease (so it is never reset), and the revision of every order, cart and
\* air does not decrease and is at most the global revision.
C13_RevisionsMonotonic ==
    [][/\ global_revision' >= global_revision
       /\ RevisionsGrow(orders, orders', global_revision')
       /\ RevisionsGrow(shopping_carts, shopping_carts', global_revision')
       /\ RevisionsGrow(airs, airs', global_revision')
       /\ \A id \in DOMAIN orders' : orders'[id].revision <= global_revision'
       /\ \A id \in DOMAIN shopping_carts' :
             shopping_carts'[id].revision <= global_revision'
       /\ \A id \in DOMAIN airs' : airs'[id].revision <= global_revision']_vars

\* two requests were served: the air was written by the second one
C13_Witness ==
    /\ global_revision = 7
    /\ "a1" \in DOMAIN airs
    /\ airs["a1"].revision = 7
    /\ orders["o1"].revision = 2
    /\ shopping_carts["c1"].revision = 5

CreatedIn(before, after) == DOMAIN after \ DOMAIN before

\* The tier of the entity an AUTO_CREATED warning reports, by the ids it carries.
Tier(w) ==
    CASE "conversationId" \in DOMAIN w.details -> 0
      [] "airId" \in DOMAIN w.details -> 3
      [] "shoppingCartId" \in DOMAIN w.details -> 2
      [] "orderId" \in DOMAIN w.details -> 1
      [] "profileId" \in DOMAIN w.details -> 4

\* C15: ensure_from_request always ensures the conversation; it ensures the
\* order only when the order id is non-blank, the cart only when the order and
\* cart ids are non-blank, the air only when the three ids are non-blank, and
\* creates them in that order (as its warnings list them); a blank id is no error (the call returns); an
\* air it creates has its cart and its order in the store after the call.
C15_EnsureTiers ==
    [][last'.op = "ensure_from_request" =>
        /\ last'.args.conversation_id \in DOMAIN conversations'
        /\ IF last'.args.path_params.orderId # ""
           THEN last'.args.path_params.orderId \in DOMAIN orders'
           ELSE orders' = orders
        /\ IF last'.args.path_params.orderId # ""
              /\ last'.args.path_params.shoppingCartId # ""
           THEN last'.args.path_params.shoppingCartId \in DOMAIN shopping_carts'
           ELSE shopping_carts' = shopping_carts
        /\ IF /\ last'.args.path_params.orderId # ""
              /\ last'.args.path_params.shoppingCartId # ""
              /\ last'.args.path_params.airId # ""
           THEN last'.args.path_params.airId \in DOMAIN airs'
           ELSE airs' = airs
        /\ \A a \in CreatedIn(airs, airs') :
              /\ airs'[a].shopping_cart_id \in DOMAIN shopping_carts'
              /\ airs'[a].order_id \in DOMAIN orders'
        /\ \A c \in CreatedIn(shopping_carts, shopping_carts') :
              shopping_carts'[c].order_id \in DOMAIN orders'
        /\ \A i, j \in 1..Len(last'.warnings) :
              i < j => Tier(last'.warnings[i]) < Tier(last'.warnings[j])]_vars

\* a request that named an order and an air but no cart: the order is there,
\* no cart and no air
C15_Witness ==
    /\ last.op = "ensure_from_request"
    /\ last.args.path_params
          = [orderId |-> "o1", shoppingCartId |-> "", airId |-> "a1", profileId |-> ""]
    /\ "o1" \in DOMAIN orders
    /\ shopping_carts = <<>>
    /\ airs = <<>>

\* The AUTO_CREATED warnings of a list that carry exactly these ids.
Reporting(warnings, details) ==
    {i \in Coded(warnings, "AUTO_CREATED") : warnings[i].details = details}

\* C16: the list ensure_from_request returns holds AUTO_CREATED warnings only,
\* exactly one for each entity the call created, carrying the entity's id(s),
\* and none for an entity that existed; the same call made again returns no
\* warning.
C16_AutoCreatedWarnings ==
    [][last'.op = "ensure_from_request" =>
        /\ Len(last'.warnings)
              = Cardinality(CreatedIn(conversations, conversations'))
                + Cardinality(CreatedIn(orders, orders'))
                + Cardinality(CreatedIn(shopping_carts, shopping_carts'))
                + Cardinality(CreatedIn(airs, airs'))
                + Cardinality(CreatedIn(profiles, profiles'))
        /\ Coded(last'.warnings, "AUTO_CREATED") = 1..Len(last'.warnings)
        /\ \A k \in CreatedIn(conversations, conversations') :
              Cardinality(Reporting(last'.warnings, [conversationId |-> k])) = 1
        /\ \A o \in CreatedIn(orders, orders') :
              Cardinality(Reporting(last'.warnings, [orderId |-> o])) = 1
        /\ \A c \in CreatedIn(shopping_carts, shopping_carts') :
              Cardinality(Reporting(last'.warnings,
                  [orderId |-> shopping_carts'[c].order_id, shoppingCartId |-> c])) = 1
        /\ \A a \in CreatedIn(airs, airs') :
              Cardinality(Reporting(last'.warnings,
                  [orderId |-> airs'[a].order_id,
                   shoppingCartId |-> airs'[a].shopping_cart_id, airId |-> a])) = 1
        /\ \A p \in CreatedIn(profiles, profiles') :
              Cardinality(Reporting(last'.warnings, [profileId |-> p])) = 1
        /\ ensure_from_request(Store', CtxOf(last'.args.conversation_id),
                               last'.args.path_params).warnings = <<>>]_vars

\* a request on a store that had the order: the cart and the air are reported
C16_Witness ==
    /\ last.op = "ensure_from_request"
    /\ last.args.path_params
          = [orderId |-> "o1", shoppingCartId |-> "c1", airId |-> "a1", profileId |-> ""]
    /\ Len(last.warnings) = 2
    /\ orders["o1"].revision < global_revision - 3
    /\ "a1" \in DOMAIN airs

\* The function that writes the ancillaries of an air in each handler.
AncillariesWriter(op) ==
    CASE op = "SeatsPut" -> "_update_store_seats"
      [] op = "SeatsDelete" -> "_delete_store_seats"
      [] op = "BagsPut" -> "_apply_baggage"
      [] op = "BagsDelete" -> "delete_shopping_cart_bags"
      [] op = "MealsPut" -> "put_select_meals"
      [] op = "MealsDelete" -> "delete_shopping_cart_meals"
      [] OTHER -> "put_select_option_solution"

\* The functions whose writes changed the store in a step.
Writers ==
    (IF DOMAIN conversations' # DOMAIN conversations THEN {"ensure_conversation"} ELSE {})
    \cup (IF DOMAIN orders' # DOMAIN orders THEN {"ensure_order"} ELSE {})
    \cup (IF DOMAIN shopping_carts' # DOMAIN shopping_carts
          THEN {"ensure_shopping_cart"} ELSE {})
    \cup (IF DOMAIN airs' # DOMAIN airs THEN {"ensure_air"} ELSE {})
    \cup (IF \E c \in DOMAIN shopping_carts' :
                shopping_carts'[c].selected_airs # <<>>
                /\ (c \in DOMAIN shopping_carts =>
                       shopping_carts'[c].selected_airs # shopping_carts[c].selected_airs)
          THEN {"ensure_from_request"} ELSE {})
    \cup (IF \E a \in DOMAIN airs' :
                airs'[a].ancillaries # <<>>
                /\ (a \in DOMAIN airs => airs'[a].ancillaries # airs[a].ancillaries)
          THEN {AncillariesWriter(last'.op)} ELSE {})
    \cup (IF \E c \in DOMAIN shopping_carts' :
                shopping_carts'[c].pricing.set
                /\ (c \in DOMAIN shopping_carts =>
                       shopping_carts'[c].pricing # shopping_carts[c].pricing)
          THEN {"_reprice_cart"} ELSE {})

\* C17: every write to store-owned state (the entity maps, selected_airs,
\* ancillaries, pricing, the revisions) is made while the store's lock is held.
C17_WritesUnderLock ==
    [][\A symbol \in Writers : LockHeld(symbol)]_vars

\* C18: whatever handler served the last request, whatever its body (a list of
\* valid, invalid and non-object entries) and whether or not the entities its path names existed, the response has the
\* success status and a null error.
C18_NeverFail ==
    /\ response.status = 200
    /\ response.error = "null"

\* _reprice_cart called now on the cart and the air of the ancillary requests,
\* and called once more on the store the first call left.
RepriceNow ==
    _reprice_cart(Store, Ctx, AncPath.orderId, AncPath.shoppingCartId, AncPath.airId)

RepriceAgain(first) ==
    _reprice_cart(first.st, Ctx, AncPath.orderId, AncPath.shoppingCartId, AncPath.airId)

\* C19: in every reachable state where the air is stored, two calls of
\* _reprice_cart on the cart and the air with nothing in between both return,
\* with the same pricing total and the same currency.
C19_RepriceIdempotent ==
    AncPath.airId \in DOMAIN airs =>
        /\ ~RepriceNow.raised
        /\ ~RepriceAgain(RepriceNow).raised
        /\ RepriceAgain(RepriceNow).pricing.total = RepriceNow.pricing.total
        /\ RepriceAgain(RepriceNow).currency = RepriceNow.currency

\* C20: in every reachable state where the air is stored, _reprice_cart does
\* not raise, and with no flight search stored on the cart its total is the sum
\* of the stored seat, bag and meal amounts, an absent list counting as zero.
C20_RepriceNeverRaises ==
    AncPath.airId \in DOMAIN airs =>
        /\ ~RepriceNow.raised
        /\ RepriceNow.pricing.total = AncillariesPart

-----------------------------------------------------------------------------
(* Flight selection                                                         *)

\* The flight search stored on the cart of the flight-selection routes.
SearchOf == shopping_carts[FlightPath.shoppingCartId].flights_search

\* The option set the selection route names.
ChosenSet == SearchOf.optionSets[_find_option_set(SearchOf, FlightPath.optionSetId)]

\* option_id is the only option marked userSelected, and solution_id the only
\* solution of that option marked preselected.
OnlyChosen(option_set, option_id, solution_id) ==
    \A i \in 1..Len(option_set.options) :
        /\ option_set.options[i].userSelected <=> option_set.options[i].id = option_id
        /\ option_set.options[i].id = option_id =>
              \A j \in 1..Len(option_set.options[i].solutions) :
                  option_set.options[i].solutions[j].v.preselected
                      <=> option_set.options[i].solutions[j].k = solution_id

\* The flightsSelection marker of the cart's first air.
Marker ==
    airs[shopping_carts[FlightPath.shoppingCartId].selected_airs[1]]
        .ancillaries["flightsSelection"]

OnCheapest(option_set) ==
    LET hit == _find_option(option_set, option_set.cheapestOptionId)
    IN  /\ hit.found
        /\ option_set.selection = [optionId |-> option_set.cheapestOptionId,
                                   solutionId |-> hit.option.cheapestSolutionId]
        /\ option_set.optionId = option_set.cheapestOptionId
        /\ option_set.solutionId = hit.option.cheapestSolutionId

C23_ConfirmationKeepsPrice ==
    [][last'.op = "FlightConfirm" =>
        /\ ~last'.raised
        /\ \/ /\ shopping_carts'[FlightPath.shoppingCartId].selection_confirmed
              /\ response'.shoppingCart.step = "ANCILLARIES"
           \/ /\ ~shopping_carts'[FlightPath.shoppingCartId].selection_confirmed
              /\ response'.shoppingCart.step = "FLIGHTS_SELECTION"
        /\ FlightPath.shoppingCartId \in DOMAIN shopping_carts =>
              shopping_carts'[FlightPath.shoppingCartId].pricing =
                  shopping_carts[FlightPath.shoppingCartId].pricing]_vars

-----------------------------------------------------------------------------
(* Routes                                                                   *)

\* The handler of the last request was the named one.
ServedBy(handler) == last.op = "Serve" /\ last.handler = handler

\* The key of the search the last request made.
LastKey == _search_key(Ctx, last.body.searchParams)

\* C24: stable_id gives different ids to the different search keys, and a
\* flight search returns without raising with its order, cart and air stored
\* under the stable ids of its key; a search whose order was stored before
\* stores no further order, cart or air.
C24_SearchIdsStable ==
    /\ \A b1, b2 \in SearchBodies :
          b1 # b2 => stable_id("order", _search_key(Ctx, b1.searchParams), 16)
                        # stable_id("order", _search_key(Ctx, b2.searchParams), 16)
    /\ ServedBy("post_flights_search") =>
          /\ ~last.raised
          /\ stable_id("order", LastKey, 16) \in DOMAIN orders
          /\ stable_id("cart", LastKey, 16) \in DOMAIN shopping_carts
          /\ stable_id("air", LastKey, 16) \in DOMAIN airs
          /\ stable_id("order", LastKey, 16) \in DOMAIN last.before.orders =>
                /\ DOMAIN orders = DOMAIN last.before.orders
                /\ DOMAIN shopping_carts = DOMAIN last.before.carts
                /\ DOMAIN airs = DOMAIN last.before.airs

\* The number of entities the store holds.
Entities(st) ==
    Cardinality(DOMAIN st.conversations) + Cardinality(DOMAIN st.orders)
    + Cardinality(DOMAIN st.carts) + Cardinality(DOMAIN st.airs)
    + Cardinality(DOMAIN st.profiles)

\* C27: a request served by _known_stub returns without raising, with a null
\* error, the entities its path names stored, one AUTO_CREATED warning for each
\* entity the request created and exactly one NOT_IMPLEMENTED warning.
C27_StubNeverRaises ==
    ServedBy("_known_stub") =>
        /\ ~last.raised
        /\ response.error = "null"
        /\ last.path_params.orderId # "" => last.path_params.orderId \in DOMAIN orders
        /\ Cardinality(Coded(response.warnings, "AUTO_CREATED"))
              = Entities(Store) - Entities(last.before)
        /\ Cardinality(Coded(response.warnings, "NOT_IMPLEMENTED")) = 1

\* The handlers of bags.py, meals.py and bookings.py.
StatefulHandlers ==
    {"put_select_baggage", "put_update_bags", "delete_shopping_cart_bags",
     "put_select_meals", "put_update_meals", "delete_shopping_cart_meals",
     "post_bookings"}

\* C28: a request to a baggage, bags, meals or bookings route is served by a
\* handler of bags.py, meals.py or bookings.py, not by _known_stub.
C28_StatefulDispatch ==
    (last.op = "Serve"
        /\ last.path \in {AirRoutes \o "/baggage", AirRoutes \o "/ancillaries/bags",
                          AirRoutes \o "/bags", AirRoutes \o "/meals",
                          AirRoutes \o "/ancillaries/meals", CartRoutes \o "/bookings"})
    => last.handler \in StatefulHandlers

\* The top-level shape of a response: the four keys, three of them lists.
IsList(v) == DOMAIN v = 1..Len(v)

-----------------------------------------------------------------------------
(* The debug flag                                                           *)

Flagged(request, env) == [request EXCEPT !.env = env]

\* A payload without its mock object.
Plain(payload) == [k \in DOMAIN payload \ {"mock"} |-> payload[k]]

\* Two results of a handler that differ in the mock object at most.
DebugBlind(off, on) ==
    /\ on.st = off.st
    /\ on.pricing = off.pricing
    /\ on.raised = off.raised
    /\ Plain(on.payload) = Plain(off.payload)

BlindBagsPut(request) ==
    DebugBlind(put_select_baggage(Store, Flagged(request, "")),
               put_select_baggage(Store, Flagged(request, "1")))

BlindBagsDelete(request) ==
    DebugBlind(delete_shopping_cart_bags(Store, Flagged(request, "")),
               delete_shopping_cart_bags(Store, Flagged(request, "1")))

BlindMealsPut(request) ==
    DebugBlind(put_select_meals(Store, Flagged(request, "")),
               put_select_meals(Store, Flagged(request, "1")))

BlindMealsDelete(request) ==
    DebugBlind(delete_shopping_cart_meals(Store, Flagged(request, "")),
               delete_shopping_cart_meals(Store, Flagged(request, "1")))

BlindSeats(request) ==
    DebugBlind(put_or_delete_seats(Store, Flagged(request, "")),
               put_or_delete_seats(Store, Flagged(request, "1")))

\* C25: in every reachable store, every request leaves the same store, the
\* same pricing and the same response but for its mock object whether
\* MOCK_DEBUG is set or not; so the stores and pricings of two runs of the same
\* requests, one with the flag and one without, stay equal.
C25_DebugBlind ==
    /\ \A body \in BagBodies(CartBagItems) :
          BlindBagsPut(Request("PUT", AncPath, NoQuery, body))
    /\ \A f \in RouteFilters :
          BlindBagsDelete(Request("DELETE", AncPath, [NoQuery EXCEPT !.routeId = f],
                                  NotAnObject))
    /\ \A body \in MealBodies(MealItems) :
          BlindMealsPut(Request("PUT", AncPath, NoQuery, body))
    /\ \A f \in SegmentFilters :
          /\ BlindMealsDelete(Request("DELETE", AncPath, [NoQuery EXCEPT !.segmentId = f],
                                      NotAnObject))
          /\ BlindSeats(Request("DELETE", AncPath, [NoQuery EXCEPT !.segmentId = f],
                                NotAnObject))
    /\ \A body \in SeatBodies(CartSeatItems) :
          BlindSeats(Request("PUT", AncPath, NoQuery, body))

\* A baggage request was served with the flag set and stored its selections.
C25_Witness ==
    /\ mock_debug = "1"
    /\ last.op = "BagsPut"
    /\ Stored("baggageSelections") # <<>>


(***************************************************************************)
(* Revisions                                                               *)
(***************************************************************************)

EntityMaps == <<conversations, orders, shopping_carts, airs, profiles>>

Returned == {c \in Tasks \X (1..MaxCalls) : c[2] <= Len(tasks[c[1]].results)}

ResultOf(c) == tasks[c[1]].results[c[2]]

\* The returned calls of ensure_order for one order id.
EnsuredOrder(o) ==
    {c \in Returned : ResultOf(c).op = "ensure_order" /\ ResultOf(c).order_id = o}

\* Those that reported created = True.
Creators(o) == {c \in EnsuredOrder(o) : ResultOf(c).created}

RECURSIVE BumpCount(_)
BumpCount(S) ==
    IF S = {} THEN 0
    ELSE LET t == CHOOSE x \in S : TRUE
         IN  Len(tasks[t].bumps) + BumpCount(S \ {t})

\* No two bumps, of one task or of two, returned the same value.
DistinctBumps ==
    \A t, u \in Tasks :
        \A i \in DOMAIN tasks[t].bumps, j \in DOMAIN tasks[u].bumps :
            (t # u \/ i # j) => tasks[t].bumps[i] # tasks[u].bumps[j]

\* The tasks between entering and leaving the with block.
Inside == {t \in Tasks : tasks[t].pc \notin {"idle", "acquire"}}

\* Every task has made all its calls and they have returned.
AllReturned ==
    \A t \in Tasks : tasks[t].pc = "idle" /\ Len(tasks[t].results) = MaxCalls

\* Some task has a step to take.
CanStep ==
    \E t \in Tasks :
        \/ t \in Inside
        \/ tasks[t].pc = "acquire" /\ LockFree(_lock, t)
        \/ tasks[t].pc = "idle" /\ Len(tasks[t].results) < MaxCalls

ConcurrentSafe ==
    /\ DistinctBumps
    /\ ~AllReturned => CanStep
    /\ Inside = {} <=> _lock = RLock
    /\ Inside # {} => Inside = {_lock.owner}
    /\ Inside = {} => global_revision = MockStateStore.rev + BumpCount(Tasks)
    /\ \A o \in TaskOrders :
           /\ Cardinality(Creators(o)) <= 1
           /\ EnsuredOrder(o) # {} =>
                  /\ Cardinality(Creators(o)) = 1
                  /\ o \in DOMAIN orders
                  /\ \A c \in Creators(o) : orders[o].revision = ResultOf(c).value

\* C29: when several tasks call touch() and ensure_order concurrently, every
\* call returns (some task can always step and the lock is free whenever no
\* task is inside a call), no two bumps return the same value, the global
\* revision is the initial one plus the number of bumps, and the calls of
\* ensure_order for one new id create one order, exactly one of them
\* reporting created = True.
C29_ConcurrentCalls == []ConcurrentSafe /\ <>AllReturned

\* All calls have returned, and two tasks called ensure_order for the same new
\* id at the same time: one created the order and the other found it.
C29_Witness ==
    /\ AllReturned
    /\ \E c, d \in EnsuredOrder(AncPath.orderId) :
           /\ c[1] # d[1]
           /\ ResultOf(c).created /\ ~ResultOf(d).created
           /\ c[1] \in ResultOf(d).during \/ d[1] \in ResultOf(c).during
           /\ ResultOf(d).value = ResultOf(c).value
    /\ \E t \in Tasks : \E i \in DOMAIN tasks[t].results : tasks[t].results[i].op = "touch"


(***************************************************************************)
(* The flight total                                                        *)
(***************************************************************************)

\* The first of the ids that is not empty, "" if none is.
FirstId(ids) ==
    IF \A i \in DOMAIN ids : ids[i] = "" THEN ""
    ELSE ids[CHOOSE i \in DOMAIN ids : ids[i] # "" /\ \A j \in 1..(i - 1) : ids[j] = ""]

\* The price an option set contributes: that of its resolved option and
\* solution, zero when one of them or the amount is missing.
Contribution(option_set) ==
    LET oid == FirstId(<<option_set.selection.optionId, option_set.optionId>>)
        at == {i \in DOMAIN option_set.options : option_set.options[i].id = oid}
    IN  IF oid = "" \/ at = {} THEN 0
        ELSE LET opt == option_set.options[CHOOSE i \in at : \A j \in at : i <= j]
                 sid == FirstId(<<option_set.selection.solutionId, option_set.solutionId,
                                  opt.cheapestSolutionId>>)
                 priced == {j \in DOMAIN opt.solutions :
                               /\ opt.solutions[j].k = sid
                               /\ "amount" \in DOMAIN opt.solutions[j].v}
             IN  IF priced = {} THEN 0
                 ELSE opt.solutions[CHOOSE j \in priced : TRUE].v.amount

FlightSum(search_obj) ==
    SumSeq([i \in DOMAIN search_obj.optionSets |-> Contribution(search_obj.optionSets[i])])

C32_TotalsAgree ==
    last.op = "flights_total" => last.seats = last.selection


(***************************************************************************)
(* Seats left earlier in the same payload                                  *)
(***************************************************************************)

\* The entry has the four fields a seat selection needs.
Complete(s) ==
    s.passengerId # "" /\ s.segmentId # "" /\ s.rowNumber # "" /\ upper(s.seatNumber) # ""

\* Entry j of the payload claims, for another passenger, the seat of entry i.
Claims(l, j, i) ==
    /\ Complete(l.selections[j])
    /\ l.selections[j].passengerId # l.selections[i].passengerId
    /\ l.selections[j].segmentId = l.selections[i].segmentId
    /\ SeatKey(l.selections[j]) = SeatKey(l.selections[i])

\* Entry i is the last word of its passenger for its segment.
Final(l, i) ==
    /\ Complete(l.selections[i])
    /\ \A j \in (i + 1)..Len(l.selections) :
           ~(/\ Complete(l.selections[j])
             /\ l.selections[j].passengerId = l.selections[i].passengerId
             /\ l.selections[j].segmentId = l.selections[i].segmentId)

\* C33: during a seat PUT a passenger is evicted, with SEAT_REASSIGNED, only
\* when the seat another passenger claims is the one the passenger holds at
\* that moment: a passenger whose last entry of the payload names a seat that
\* no later entry claims holds that seat afterwards, and no SEAT_REASSIGNED
\* names a passenger for a seat they had left earlier in the payload.
C33_NoStaleEviction ==
    last.op = "SeatsPut" =>
        \A i \in DOMAIN last.selections :
            /\ (Final(last, i) /\ \A j \in (i + 1)..Len(last.selections) : ~Claims(last, j, i))
                  => SeatsOf(last.selections[i].passengerId, last.selections[i].segmentId)
                        = {Seat(last.selections[i].passengerId, last.selections[i].segmentId,
                                last.selections[i].rowNumber,
                                upper(last.selections[i].seatNumber))}
            /\ Complete(last.selections[i])
                  => \A w \in Coded(last.warnings, "SEAT_REASSIGNED") :
                        ~(/\ last.warnings[w].details.fromPassengerId
                                = last.selections[i].passengerId
                          /\ last.warnings[w].details.segmentId = last.selections[i].segmentId
                          /\ last.warnings[w].details.seat # SeatKey(last.selections[i])
                          /\ \E j \in (i + 1)..Len(last.selections) :
                                /\ Complete(last.selections[j])
                                /\ last.selections[j].passengerId
                                      = last.warnings[w].details.toPassengerId
                                /\ SeatKey(last.selections[j])
                                      = last.warnings[w].details.seat)


(***************************************************************************)
(* Meal items                                                              *)
(***************************************************************************)

\* The price of a meal selection: that of the catalog, or of an unknown id.
MealPrice(s) ==
    IF _meal_catalog(s.mealId).known THEN _meal_catalog(s.mealId).amount
    ELSE IF NamesDrink(s.mealId) THEN 8 ELSE 10

\* The stored items that price a stored selection.
ItemsFor(s) ==
    {i \in DOMAIN Stored("mealItems") :
        /\ Stored("mealItems")[i].passengerId = s.passengerId
        /\ Stored("mealItems")[i].segmentId = s.segmentId
        /\ Stored("mealItems")[i].mealId = s.mealId
        /\ Stored("mealItems")[i].amount = MealPrice(s)}

\* The seat and baggage parts of the cart total.
OtherParts ==
    SumSeq([i \in 1..Len(Stored("seatSelections")) |->
               _seat_price(Stored("seatSelections")[i].rowNumber,
                           Stored("seatSelections")[i].seatNumber)])
    + SumSeq([i \in 1..Len(Stored("baggageItems")) |-> Stored("baggageItems")[i].amount])

MealsNeverStored == Stored("mealSelections") = <<>> /\ Stored("mealItems") = <<>>


(***************************************************************************)
(* References between the entities                                         *)
(***************************************************************************)

\* C35: every air id in a cart's selected_airs names a stored air whose
\* shopping_cart_id is that cart; a request path that names an existing air
\* under another cart does not add the air to that cart's selected_airs.
C35_SelectedAirsOwned ==
    \A c \in DOMAIN shopping_carts :
        \A i \in DOMAIN shopping_carts[c].selected_airs :
            /\ shopping_carts[c].selected_airs[i] \in DOMAIN airs
            /\ airs[shopping_carts[c].selected_airs[i]].shopping_cart_id = c


\* C36: every stored cart's order_id names a stored order, and every stored
\* air's shopping_cart_id and order_id name a stored cart and a stored order.
C36_OwnersStored ==
    /\ \A c \in DOMAIN shopping_carts : shopping_carts[c].order_id \in DOMAIN orders
    /\ \A a \in DOMAIN airs :
           /\ airs[a].shopping_cart_id \in DOMAIN shopping_carts
           /\ airs[a].order_id \in DOMAIN orders


\* The stored search of the flight-selection cart, when the cart holds one.
HasSearch(carts) ==
    /\ FlightPath.shoppingCartId \in DOMAIN carts
    /\ HasAttr(carts[FlightPath.shoppingCartId], "flights_search")

\* The option set, option and solution the route names all exist in the
\* stored search, the option set's selection is that pair, and the pair
\* resolves to a price.
RecordedResolves(carts) ==
    /\ HasSearch(carts)
    /\ LET search_obj == carts[FlightPath.shoppingCartId].flights_search
           i == _find_option_set(search_obj, FlightPath.optionSetId)
       IN  /\ i # 0
           /\ _find_option(search_obj.optionSets[i], FlightPath.optionId).found
           /\ search_obj.optionSets[i].selection =
                  [optionId |-> FlightPath.optionId, solutionId |-> FlightPath.solutionId]
           /\ _extract_solution_price(
                  _find_option(search_obj.optionSets[i], FlightPath.optionId).option,
                  FlightPath.solutionId).found

\* A cart stored before the request keeps its pricing and its stored search.
SelectionKept(before, after) ==
    FlightPath.shoppingCartId \in DOMAIN before =>
        /\ after[FlightPath.shoppingCartId].pricing =
              before[FlightPath.shoppingCartId].pricing
        /\ HasSearch(before) =>
              after[FlightPath.shoppingCartId].flights_search =
                  before[FlightPath.shoppingCartId].flights_search

\* C37: a put_select_option_solution request either records a selection whose
\* option set, option and solution all exist and resolve to a price, or leaves
\* the stored selection and pricing unchanged and returns one more warning.
C37_SelectValidated ==
    [][last'.op = "FlightSelect" =>
        \/ RecordedResolves(shopping_carts')
        \/ /\ SelectionKept(shopping_carts, shopping_carts')
           /\ Len(response'.warnings) > Len(Ctx.warnings)]_vars


\* The air of the flight-selection cart carries a flightsSelection marker with
\* a confirmed value, and the cart a selection_confirmed flag.
BothSet ==
    /\ FlightPath.shoppingCartId \in DOMAIN shopping_carts
    /\ HasAttr(shopping_carts[FlightPath.shoppingCartId], "selection_confirmed")
    /\ shopping_carts[FlightPath.shoppingCartId].selected_airs # <<>>
    /\ shopping_carts[FlightPath.shoppingCartId].selected_airs[1] \in DOMAIN airs
    /\ "flightsSelection" \in DOMAIN
          airs[shopping_carts[FlightPath.shoppingCartId].selected_airs[1]].ancillaries
    /\ "confirmed" \in DOMAIN Marker

\* C38: whenever the air's flightsSelection marker has a confirmed value and
\* the cart's selection_confirmed flag is set, the two values are equal.
C38_ConfirmedAgree ==
    BothSet => Marker.confirmed = shopping_carts[FlightPath.shoppingCartId].selection_confirmed

\* No reachable state has both values: every flight-selection handler raises
\* before it writes either of them.
NeverBothSet == ~BothSet


\* The fee table of the claim.
TableFee(r, col) ==
    IF \/ r = 10 /\ col \in {"D", "F"}
       \/ r \in {15, 40} /\ col \in {"D", "F", "G"}
    THEN 25
    ELSE IF r \in {15, 40} /\ col \in {"A", "B", "C", "H", "J", "K"} THEN 30
    ELSE 0

\* C39: for every seat of the generated seat map the fee _seat_price charges
\* equals the price the seat map shows for the seat, which is 25 for the XL
\* seats, 30 for the exit seats and 0 for every other seat.
C39_SeatFeeIsShownPrice ==
    last.op = "seat_map" /\ last.place.exists =>
        /\ last.fee = last.place.seat.pricing.amount
        /\ last.fee = TableFee(last.row_number, last.col)

\* The XL seat 40G of the economy cabin is shown and charged at 25.
C39_Witness ==
    /\ last.op = "seat_map"
    /\ last.cabin_type = "ECONOMY" /\ last.row_number = 40 /\ last.col = "G"
    /\ last.place.exists /\ last.place.seat.priceGroup = "XL"
    /\ last.fee = 25


\* C40: when MOCK_DEBUG is not enabled the response of a handler contains no
\* mock object.
C40_NoMockWithoutDebug ==
    ~debug_enabled(mock_debug) => ~HasAttr(response, "mock")

====
